---- MODULE Spec2Model ----
(***************************************************************************)
(* MMCd-Go: the serial transport (SerialConn), the protocol engine (ECU)   *)
(* and the sampling engine (Logger), as a state machine.                   *)
(***************************************************************************)
EXTENDS Integers, Sequences, FiniteSets, TLC

(* ---------------------------------------------------------------- bounds *)
MaxLine == 2
MaxTimeout == 1
MaxLoops == 2
MaxCallbacks == 2
MaxSamples == 2
MaxApply == 2
MaxCycles == 3

(* ------------------------------------------------------ program constants *)
CommandRangeStart == 192

\* the watchdog threshold of the reliability notes and the logger tests
watchdogThreshold == 20

validCommandAddrs ==
    {202,
     241, 242, 243, 244,
     245, 246, 247, 248,
     249, 250, 251, 252}

Byte == 0..255

(* ------------------------------------------------------------ input sets *)
\* the users of the one ECU: the goroutine that polls and the one that
\* sends commands
Callers == {1, 2}
NoProc == 0
\* the goroutines that run Logger.pollLoop
Loops == 11..(10 + MaxLoops)
Timeouts == 0..MaxTimeout
DataBytes == {0, 64}
QueryInputs == {33, 191} \cup (CommandRangeStart..255)
CmdInputs == (Byte \ validCommandAddrs) \cup {202, 246}
BusQueryAddrs == {33, 192}
BusCmdAddrs == {246, 33}
BusDataBytes == {64}
IndexLists == {<<>>, <<17>>, <<19, 17>>, <<20, 32, 17>>}

(* The lists PollSensors is called with by a caller of the ECU: those, and  *)
(* one with a negative index and two slots without a sensor before RPM.    *)
PollLists == IndexLists \cup {<<-1, 0, 23, 17>>}

Min(a, b) == IF a < b THEN a ELSE b

Last(s) == s[Len(s)]

(* the byte read from a disturbed line in place of the echo; no request  *)
(* the engine sends has this value                                       *)
Garbage == 255

(* What the device may put on the wire after it is sent byte b: nothing,  *)
(* the echo alone, the echo and one more byte, or a corrupted echo and    *)
(* one more byte.                                                        *)
DeviceReplies(b, data) ==
    {<<>>, <<b>>}
        \cup {<<b, d>> : d \in data}
        \cup {<<Garbage, d>> : d \in data}

(* ------------------------------------------------------- sensor table *)
MaxSensors == 32

Slots == 0..(MaxSensors - 1)

Def(addr, slug, exists, computed) ==
    [Addr |-> addr, Slug |-> slug, Exists |-> exists, Computed |-> computed]

\* sensor.DefaultDefinitions
DefaultDefinitions ==
    [i \in Slots |->
        CASE i = 0 -> Def(255, "", FALSE, FALSE)
          [] i = 1 -> Def(0, "FLG0", TRUE, FALSE)
          [] i = 2 -> Def(2, "FLG2", TRUE, FALSE)
          [] i = 3 -> Def(6, "TIMA", TRUE, FALSE)
          [] i = 4 -> Def(7, "COOL", TRUE, FALSE)
          [] i = 5 -> Def(12, "FTRL", TRUE, FALSE)
          [] i = 6 -> Def(13, "FTRM", TRUE, FALSE)
          [] i = 7 -> Def(14, "FTRH", TRUE, FALSE)
          [] i = 8 -> Def(15, "FTO2", TRUE, FALSE)
          [] i = 9 -> Def(18, "EGRT", TRUE, FALSE)
          [] i = 10 -> Def(19, "O2-R", TRUE, FALSE)
          [] i = 11 -> Def(20, "BATT", TRUE, FALSE)
          [] i = 12 -> Def(21, "BARO", TRUE, FALSE)
          [] i = 13 -> Def(22, "ISC", TRUE, FALSE)
          [] i = 14 -> Def(23, "TPS", TRUE, FALSE)
          [] i = 15 -> Def(26, "MAFS", TRUE, FALSE)
          [] i = 16 -> Def(29, "ACLE", TRUE, FALSE)
          [] i = 17 -> Def(33, "RPM", TRUE, FALSE)
          [] i = 18 -> Def(38, "KNCK", TRUE, FALSE)
          [] i = 19 -> Def(41, "INJP", TRUE, FALSE)
          [] i = 20 -> Def(255, "INJD", TRUE, TRUE)
          [] i = 21 -> Def(58, "AIRT", TRUE, FALSE)
          [] i = 22 -> Def(62, "O2-F", TRUE, FALSE)
          [] i = 23 -> Def(0, "", FALSE, FALSE)
          [] OTHER -> Def(0, "00", FALSE, FALSE)]

\* a loop that looks at the range of the index alone
QueriedInRange(idx) == idx >= 0 /\ idx < MaxSensors

\* the slot PollSensors queries over the wire for index idx, if any
Queried(idx) ==
    /\ idx >= 0 /\ idx < MaxSensors
    /\ DefaultDefinitions[idx].Exists
    /\ ~DefaultDefinitions[idx].Computed
    /\ DefaultDefinitions[idx].Addr # 255

(* ---------------------------------------------------------------- Sample *)
EmptySample == [DataPresent |-> {}, RawData |-> [i \in Slots |-> 0]]

HasData(s, idx) == idx \in s.DataPresent

\* SetData without the presence bit
SetDataValueOnly(s, idx, value) ==
    [s EXCEPT !.RawData = [@ EXCEPT ![idx] = value]]

SetData(s, idx, value) ==
    [s EXCEPT !.DataPresent = @ \cup {idx},
              !.RawData = [@ EXCEPT ![idx] = value]]

\* the last index of the table with this slug, or -1
SlugIndex(slug) ==
    LET hits == {i \in Slots : DefaultDefinitions[i].Slug = slug}
    IN IF hits = {} THEN -1 ELSE CHOOSE i \in hits : \A j \in hits : j <= i

\* the value stored without the cap, as byte(v)
ComputeDerivativesUncapped(s) ==
    LET rpmIdx == SlugIndex("RPM")
        injpIdx == SlugIndex("INJP")
        injdIdx == SlugIndex("INJD")
    IN IF HasData(s, rpmIdx) /\ HasData(s, injpIdx)
       THEN SetData(s, injdIdx, ((s.RawData[injpIdx] * s.RawData[rpmIdx]) \div 117) % 256)
       ELSE s

\* the pulse width marked as used up once the duty cycle is computed
ComputeDerivativesConsuming(s) ==
    LET rpmIdx == SlugIndex("RPM")
        injpIdx == SlugIndex("INJP")
        injdIdx == SlugIndex("INJD")
    IN IF HasData(s, rpmIdx) /\ HasData(s, injpIdx)
       THEN LET v == (s.RawData[injpIdx] * s.RawData[rpmIdx]) \div 117
                t == SetData(s, injdIdx, IF v > 255 THEN 255 ELSE v)
            IN [t EXCEPT !.DataPresent = @ \ {injpIdx}]
       ELSE s

ComputeDerivatives(s) ==
    LET rpmIdx == SlugIndex("RPM")
        injpIdx == SlugIndex("INJP")
        injdIdx == SlugIndex("INJD")
    IN IF rpmIdx < 0 \/ injpIdx < 0 \/ injdIdx < 0
       THEN s
       ELSE IF HasData(s, rpmIdx) /\ HasData(s, injpIdx)
            THEN LET v == (s.RawData[injpIdx] * s.RawData[rpmIdx]) \div 117
                 IN SetData(s, injdIdx, IF v > 255 THEN 255 ELSE v)
            ELSE s

VARIABLES
    isOpen,     \* SerialConn.isOpen
    rx,         \* bytes the OS has buffered for the port, unread
    wire,       \* bytes the device has sent that have not arrived yet
    busMu,      \* ECU.busMu: the process holding it, or NoProc
    lastIO,     \* the process that did the latest Send or Receive
    pc,         \* each process's position
    call,       \* each process's locals of the QuerySensor/SendCommand in progress
    poll,       \* each process's locals of the PollSensors in progress
    poller,     \* Logger.poller: "ecu" (the ECU above) or "mock" (a test poller)
    running,    \* Logger.running
    ctx,        \* each loop's context: "none", "live" or "done" (cancelled)
    cur,        \* the loop whose context Logger.cancel cancels, or NoProc
    indices,    \* Logger.indices
    callbacks,  \* len(Logger.callbacks)
    lastSample, \* Logger.lastSample
    lp,         \* each loop's locals: the sample and the callbacks snapshot
    mu,         \* Logger.mu: the loop holding it, or NoProc
    fails,      \* history: each loop's failed polls in a row
    lastRun,    \* history: the length of the loop's last run of failed polls
                \* that a successful poll ended
    dead,       \* history: each loop's polls in a row in which queries were
                \* made and none was answered
    cbAfterStop,\* history: a callback was invoked by a loop whose context
                \* Stop had cancelled before
    countTo,    \* how far the history variables count
    file,       \* the bytes of the .mmcd file
    bw,         \* the BinaryWriter: "none", "open" or "closed", and sampleCount
    given,      \* history: what the writer was given
    log,        \* the result of the latest ReadBinaryLog
    pdb,        \* the legacy file at hand: its tags, name and records
    parsed,     \* the result of the latest ParsePDB, and of which file
    calc,       \* a sample, and what ComputeDerivatives has made of it
    dtc,        \* a fault bitmap, and what decodeDTCs returned for it
    app         \* the App's fields, and the ECU operation each caller is in

\* the legacy import, and the values the pure functions are applied to
importv == <<pdb, parsed>>

purev == <<calc, dtc>>

filev == <<file, bw, given, log, importv, purev, app>>

\* the logger's fields and history
loggerv == <<poller, running, ctx, cur, indices, callbacks, lastSample, lp, mu,
             fails, lastRun, dead, cbAfterStop, countTo>>

\* the logger's fields and history that a returning poll leaves alone, and
\* the log file
userv == <<poller, running, ctx, cur, indices, callbacks, lastSample,
           cbAfterStop, countTo, filev>>

logv == <<filev, poller, running, ctx, cur, indices, callbacks, lastSample, lp, mu,
          fails, lastRun, dead, cbAfterStop, countTo>>

vars == <<isOpen, rx, wire, busMu, lastIO, pc, call, poll, logv>>

Procs == Callers \cup Loops

NoWriter == [state |-> "none", sampleCount |-> 0]

NoWrote == [indices |-> <<>>, units |-> 0, samples |-> <<>>]

\* closed and count tell the state of the writer at the time of the read
NoLog ==
    [result |-> [err |-> "not read"], closed |-> FALSE, count |-> 0,
     kind |-> "none", bytes |-> <<>>]

\* no legacy file yet, nothing parsed, no sample and no bitmap taken
NoPDB == [type |-> <<>>, creator |-> <<>>, name |-> <<>>, recs |-> <<>>]

NoParse ==
    [result |-> [err |-> "not parsed"], how |-> "none", of |-> NoPDB, size |-> 0,
     zone |-> 0]

NoCalc == [n |-> -1]

NoDTC == [bitmap |-> -1, codes |-> <<>>]

\* no operation of the ECU in progress for a caller: op is the method, addrs
\* the request bytes of its calls in order, step the number of calls that
\* have returned, opened whether the method opened the port itself
NoJob ==
    [op |-> "none", addrs |-> <<>>, step |-> 0, opened |-> FALSE, done |-> FALSE,
     err |-> "none", vals |-> <<>>]

\* NewApp: nothing connected; no ECU, no logger, no CSV writer. made tells
\* that the logger at hand, or the last one, was made by StartMonitoring:
\* its first subscriber emits to the frontend, the others are those of
\* StartLogging. saw is what
\* the CSV subscriber's callback has read from a.csvWriter, rows the number
\* of rows written for the sample the loop is delivering, whole whether the
\* CSV writer has been there since that delivery began; late and panicked
\* are history: a write through a writer StopLogging had closed, and a use
\* of a nil pointer.
NoApp ==
    [connected |-> FALSE, demoMode |-> FALSE, ecu |-> FALSE, lg |-> FALSE,
     made |-> FALSE,
     csvWriter |-> "nil", saw |-> "unread", rows |-> 0, whole |-> FALSE,
     late |-> FALSE, panicked |-> FALSE, ret |-> "none",
     job |-> [p \in Callers |-> NoJob]]

\* a loop between polls
\* asked is the number of queries made by the poll that gave the sample
\* cycles is the loop's cycleCount
NoLoop == [sample |-> EmptySample, cbs |-> 0, k |-> 0, asked |-> 0, cycles |-> 0]

NoErr == [kind |-> "none", addr |-> 0, got |-> 0]
Err(kind, addr, got) == [kind |-> kind, addr |-> addr, got |-> got]

\* sent is what the call has written to the port, reads the number of
\* Receive calls of QuerySensor's read loop
NoCall ==
    [op |-> "none", addr |-> 0, timeout |-> 0, totalRead |-> 0, buf |-> <<0, 0>>,
     expired |-> FALSE, trace |-> <<>>, err |-> NoErr, val |-> 0,
     sent |-> <<>>, reads |-> 0]

\* asked, okay and failed record the queries of the call: the indices
\* queried, in order, those answered with the data byte, and those failed
\* with the error
NoPoll == [active |-> FALSE, indices |-> <<>>, k |-> 1, sample |-> EmptySample,
           asked |-> <<>>, okay |-> {}, failed |-> {}]

\* what is left of a call once it has returned: the result, and the record
\* of what the call did on the transport
RetOf(c) ==
    [NoCall EXCEPT !.op = c.op, !.addr = c.addr, !.err = c.err, !.val = c.val,
                   !.trace = c.trace, !.sent = c.sent]

\* the transport operations of one call, in order, repeats collapsed
Note(trace, kind) ==
    IF trace # <<>> /\ Last(trace) = kind THEN trace ELSE Append(trace, kind)

(* --------------------------------------------------------------- guards *)
\* the guard with its comparison off by one
QueryRejectsAbove(addr) == addr > CommandRangeStart

QueryRejects(addr) == addr >= CommandRangeStart

\* a range check in place of the whitelist
CommandRejectsBelowRange(cmd) == cmd < CommandRangeStart

CommandRejects(cmd) == cmd \notin validCommandAddrs

\* a lock that excludes nobody
BusFreeAlways == TRUE

BusFree == busMu = NoProc

(* ------------------------------------------------------------- transport *)
\* SerialConn.Receive into a buffer with room for cap bytes: the numbers of
\* bytes one read can return. A read returns as soon as bytes are there, and
\* with none after the port's read timeout.
RecvCounts(cap) == IF rx = <<>> THEN {0} ELSE 1..Min(cap, Len(rx))

Take(s, n) == SubSeq(s, 1, n)
Drop(s, n) == SubSeq(s, n + 1, Len(s))

\* buf[at:] filled with the bytes read
Fill(buf, at, bytes) ==
    [i \in 1..Len(buf) |->
        IF i > at /\ i <= at + Len(bytes) THEN bytes[i - at] ELSE buf[i]]

\* SerialConn.Flush: ResetInputBuffer on an open port, nothing on a closed one
Flushed(r) == IF isOpen THEN <<>> ELSE r

\* NewSerialConn, NewECU and logger.New(poller, defs, list, units)
ConstructCounting(kind, list, upTo, cyclesTo) ==
    /\ isOpen = FALSE
    /\ rx = <<>>
    /\ wire = <<>>
    /\ busMu = NoProc
    /\ lastIO = NoProc
    /\ pc = [p \in Procs |-> IF p \in Loops THEN "off" ELSE "idle"]
    /\ call = [p \in Procs |-> NoCall]
    /\ poll = [p \in Procs |-> NoPoll]
    /\ poller = kind
    /\ running = FALSE
    /\ ctx = [g \in Loops |-> "none"]
    /\ cur = NoProc
    /\ indices = list
    /\ callbacks = 0
    /\ lastSample = EmptySample
    /\ lp = [g \in Loops |-> NoLoop]
    /\ mu = NoProc
    /\ fails = [g \in Loops |-> 0]
    /\ lastRun = [g \in Loops |-> 0]
    /\ dead = [g \in Loops |-> 0]
    /\ cbAfterStop = FALSE
    /\ countTo = [errors |-> upTo, cycles |-> cyclesTo]
    /\ file = <<>>
    /\ bw = NoWriter
    /\ given = NoWrote
    /\ log = NoLog
    /\ pdb = NoPDB
    /\ parsed = NoParse
    /\ calc = NoCalc
    /\ dtc = NoDTC
    /\ app = NoApp

\* the same, with a cycleCount that is not followed
Construct(kind, list, upTo) == ConstructCounting(kind, list, upTo, 0)

Init == Construct("ecu", <<>>, 0)

\* SerialConn.Open / Close
Open ==
    /\ ~isOpen
    /\ isOpen' = TRUE
    /\ UNCHANGED <<logv, rx, wire, busMu, lastIO, pc, call, poll>>

Close ==
    /\ isOpen
    /\ isOpen' = FALSE
    /\ rx' = <<>>
    /\ UNCHANGED <<logv, wire, busMu, lastIO, pc, call, poll>>

\* a byte in flight arrives in the port's input buffer
Deliver ==
    /\ wire # <<>>
    /\ wire' = Tail(wire)
    /\ rx' = IF isOpen THEN Append(rx, Head(wire)) ELSE rx
    /\ UNCHANGED <<logv, isOpen, busMu, lastIO, pc, call, poll>>

(* ------------------------------------------------------- ECU.QuerySensor *)
\* after the read loop: the timeout check, the echo check, the data byte
\* the echo logged but not checked
QueryVerdictEchoUnchecked(addr, totalRead, buf) ==
    IF totalRead < 2
    THEN [err |-> Err("timeout", addr, totalRead), val |-> 0, flush |-> TRUE]
    ELSE [err |-> NoErr, val |-> buf[2], flush |-> FALSE]

\* the timeout check with its bound off by one
QueryVerdictOneByte(addr, totalRead, buf) ==
    IF totalRead < 1
    THEN [err |-> Err("timeout", addr, totalRead), val |-> 0, flush |-> TRUE]
    ELSE IF buf[1] # addr
         THEN [err |-> Err("echo mismatch", addr, buf[1]), val |-> 0, flush |-> TRUE]
         ELSE [err |-> NoErr, val |-> buf[2], flush |-> FALSE]

\* the timeout returned without a flush
QueryVerdictNoFlush(addr, totalRead, buf) ==
    IF totalRead < 2
    THEN [err |-> Err("timeout", addr, totalRead), val |-> 0, flush |-> FALSE]
    ELSE IF buf[1] # addr
         THEN [err |-> Err("echo mismatch", addr, buf[1]), val |-> 0, flush |-> TRUE]
         ELSE [err |-> NoErr, val |-> buf[2], flush |-> FALSE]

\* the echo returned in place of the data byte
QueryVerdictReturnsEcho(addr, totalRead, buf) ==
    IF totalRead < 2
    THEN [err |-> Err("timeout", addr, totalRead), val |-> 0, flush |-> TRUE]
    ELSE IF buf[1] # addr
         THEN [err |-> Err("echo mismatch", addr, buf[1]), val |-> 0, flush |-> TRUE]
         ELSE [err |-> NoErr, val |-> buf[1], flush |-> FALSE]

QueryVerdict(addr, totalRead, buf) ==
    IF totalRead < 2
    THEN [err |-> Err("timeout", addr, totalRead), val |-> 0, flush |-> TRUE]
    ELSE IF buf[1] # addr
         THEN [err |-> Err("echo mismatch", addr, buf[1]), val |-> 0, flush |-> TRUE]
         ELSE [err |-> NoErr, val |-> buf[2], flush |-> FALSE]

\* an error of conn.Receive inside a read loop: flush, then the error
ReceiveFailure(c, kind) ==
    [c EXCEPT !.err = Err(kind, c.addr, c.totalRead), !.val = 0,
              !.trace = Note(Note(c.trace, "recv"), "flush")]

QueryCall(p, addr) ==
    /\ pc[p] = "idle"
    /\ IF QueryRejects(addr)
       THEN /\ call' = [call EXCEPT ![p] =
                          [NoCall EXCEPT !.op = "query", !.addr = addr,
                                         !.err = Err("command range", addr, 0)]]
            /\ pc' = [pc EXCEPT ![p] = "done"]
       ELSE /\ call' = [call EXCEPT ![p] = [NoCall EXCEPT !.op = "query", !.addr = addr]]
            /\ pc' = [pc EXCEPT ![p] = "q_lock"]
    /\ UNCHANGED <<logv, isOpen, rx, wire, busMu, lastIO, poll>>

\* e.busMu.Lock()
QLock(p) ==
    /\ pc[p] = "q_lock"
    /\ BusFree
    /\ busMu' = p
    /\ pc' = [pc EXCEPT ![p] = "q_send"]
    /\ UNCHANGED <<logv, isOpen, rx, wire, lastIO, call, poll>>

\* e.conn.Send([]byte{addr}); the device answers what it answers
QSend(p, data) ==
    /\ pc[p] = "q_send"
    /\ \E wrote \in BOOLEAN :
         IF isOpen /\ wrote
         THEN /\ \E r \in DeviceReplies(call[p].addr, data) :
                   /\ Len(wire) + Len(rx) + Len(r) <= MaxLine
                   /\ wire' = wire \o r
              /\ lastIO' = p
              /\ call' = [call EXCEPT ![p].trace = Note(@, "send"),
                                      ![p].sent = Append(@, call[p].addr)]
              /\ pc' = [pc EXCEPT ![p] = "q_recv"]
         ELSE /\ call' = [call EXCEPT ![p].trace = Note(@, "send"),
                                      ![p].err = Err("send", call[p].addr, 0)]
              /\ pc' = [pc EXCEPT ![p] = "q_ret"]
              /\ UNCHANGED <<wire, lastIO>>
    /\ UNCHANGED <<logv, isOpen, rx, busMu, poll>>

\* one turn of the read loop: conn.Receive(buf[totalRead:])
QRecv(p) ==
    /\ pc[p] = "q_recv"
    /\ call[p].totalRead < 2 /\ ~call[p].expired
    /\ \E failed \in BOOLEAN :
         IF ~isOpen \/ failed
         THEN /\ call' = [call EXCEPT ![p] = ReceiveFailure(@, "read")]
              /\ rx' = Flushed(rx)
              /\ pc' = [pc EXCEPT ![p] = "q_ret"]
              /\ lastIO' = lastIO
         ELSE /\ \E n \in RecvCounts(2 - call[p].totalRead) :
                   /\ call' = [call EXCEPT
                                 ![p].buf = Fill(@, call[p].totalRead, Take(rx, n)),
                                 ![p].totalRead = @ + n,
                                 ![p].expired = (n = 0),
                                 ![p].reads = @ + 1,
                                 ![p].trace = Note(@, "recv")]
                   /\ rx' = Drop(rx, n)
              /\ lastIO' = p
              /\ pc' = pc
    /\ UNCHANGED <<logv, isOpen, wire, busMu, poll>>

\* the loop is over: timeout check, echo check, result
QCheck(p) ==
    /\ pc[p] = "q_recv"
    /\ ~(call[p].totalRead < 2 /\ ~call[p].expired)
    /\ LET c == call[p]
           v == QueryVerdict(c.addr, c.totalRead, c.buf)
       IN /\ call' = [call EXCEPT ![p].err = v.err, ![p].val = v.val,
                        ![p].trace = IF v.flush THEN Note(@, "flush") ELSE @]
          /\ rx' = IF v.flush THEN Flushed(rx) ELSE rx
    /\ pc' = [pc EXCEPT ![p] = "q_ret"]
    /\ UNCHANGED <<logv, isOpen, wire, busMu, lastIO, poll>>

\* PollSensors after a query: a failed one ends the call
NextSlotAbortOnError(q, ok) == IF ok THEN q.k + 1 ELSE Len(q.indices) + 1

\* PollSensors after a query, failed (continue) or not: the next index
NextSlot(q, ok) == q.k + 1

\* return: the deferred busMu.Unlock(), then the caller has the result
\* an Unlock that the error returns leave out
AfterUnlockOnSuccess(p, err) == IF err = NoErr THEN NoProc ELSE p

\* defer e.busMu.Unlock(): the lock after the return of p, whatever it returns
AfterUnlock(p, err) == NoProc

QRet(p) ==
    /\ pc[p] = "q_ret"
    /\ busMu' = AfterUnlock(p, call[p].err)
    /\ IF poll[p].active
       THEN LET q == poll[p]
                idx == q.indices[q.k]
            IN /\ poll' = [poll EXCEPT ![p] =
                    IF call[p].err = NoErr
                    THEN [q EXCEPT !.sample = SetData(q.sample, idx, call[p].val),
                                   !.okay = @ \cup {<<idx, call[p].val>>},
                                   !.k = NextSlot(q, TRUE)]
                    ELSE [q EXCEPT !.failed = @ \cup {<<idx, call[p].err.kind>>},
                                   !.k = NextSlot(q, FALSE)]]
               /\ call' = [call EXCEPT ![p] = NoCall]
               /\ pc' = [pc EXCEPT ![p] = "p_next"]
       ELSE /\ pc' = [pc EXCEPT ![p] = "done"]
            /\ call' = [call EXCEPT ![p] = RetOf(@)]
            /\ poll' = poll
    /\ UNCHANGED <<logv, isOpen, rx, wire, lastIO>>

\* the caller has read the result of its call
Forget(p) ==
    /\ pc[p] = "done"
    /\ pc' = [pc EXCEPT ![p] = "idle"]
    /\ call' = [call EXCEPT ![p] = NoCall]
    /\ poll' = [poll EXCEPT ![p] = NoPoll]
    /\ UNCHANGED <<logv, isOpen, rx, wire, busMu, lastIO>>

(* ------------------------------------------------------ Logger.pollLoop *)
\* the history counters stop at countTo.errors, cycleCount at countTo.cycles
Count(n) == IF n < countTo.errors THEN n + 1 ELSE n

\* pollLoop: cycleCount++ after a poll without error
CountCycle(n, ok) == IF ok /\ n < countTo.cycles THEN n + 1 ELSE n

\* on a poll error the loop returns
AfterPollErrorReturn == "off"

\* on a poll error the loop logs and goes on to its next select
AfterPollError == "l_select"

\* l.poller.PollSensors(indices) has returned (sample, err) to loop g; ok is
\* err == nil; asked and answered are the numbers of queries the poll made
\* and got answered. On success the loop goes on to l.mu.Lock().
PollReturned(g, sample, ok, asked, answered) ==
    IF ~ok
    THEN /\ pc' = [pc EXCEPT ![g] = AfterPollError]
         /\ fails' = [fails EXCEPT ![g] = Count(@)]
         /\ lp' = [lp EXCEPT ![g].cycles = CountCycle(@, ok)]
         /\ UNCHANGED <<mu, lastRun, dead>>
    ELSE /\ mu = NoProc
         /\ mu' = g
         /\ lp' = [lp EXCEPT ![g] = [NoLoop EXCEPT !.sample = sample, !.asked = asked,
                                                   !.cycles = CountCycle(lp[g].cycles, ok)]]
         /\ pc' = [pc EXCEPT ![g] = "l_store"]
         /\ fails' = [fails EXCEPT ![g] = 0]
         /\ lastRun' = [lastRun EXCEPT ![g] = IF fails[g] > 0 THEN fails[g] ELSE @]
         /\ dead' = [dead EXCEPT ![g] =
                       IF asked > 0 /\ answered = 0 THEN Count(@) ELSE 0]

(* ------------------------------------------------------- ECU.PollSensors *)
PollCall(p, list) ==
    /\ pc[p] = "idle"
    /\ poll' = [poll EXCEPT ![p] = [NoPoll EXCEPT !.active = TRUE, !.indices = list]]
    /\ pc' = [pc EXCEPT ![p] = "p_next"]
    /\ UNCHANGED <<logv, isOpen, rx, wire, busMu, lastIO, call>>

\* one turn of the loop over indices, or what follows the loop
PollNext(p) ==
    /\ pc[p] = "p_next"
    /\ LET q == poll[p]
       IN IF q.k > Len(q.indices)
          THEN IF p \in Loops
               THEN /\ PollReturned(p, ComputeDerivatives(q.sample), TRUE,
                                    Len(q.asked), Cardinality(q.okay))
                    /\ poll' = [poll EXCEPT ![p] = NoPoll]
                    /\ call' = call
               ELSE /\ poll' = [poll EXCEPT ![p].active = FALSE,
                                       ![p].sample = ComputeDerivatives(q.sample)]
                    /\ call' = [call EXCEPT ![p] = [NoCall EXCEPT !.op = "poll"]]
                    /\ pc' = [pc EXCEPT ![p] = "done"]
                    /\ UNCHANGED <<lp, mu, fails, lastRun, dead>>
          ELSE LET idx == q.indices[q.k]
               IN IF ~Queried(idx)
                  THEN /\ poll' = [poll EXCEPT ![p].k = @ + 1]
                       /\ UNCHANGED <<pc, call, lp, mu, fails, lastRun, dead>>
                  ELSE IF QueryRejects(DefaultDefinitions[idx].Addr)
                       THEN /\ poll' = [poll EXCEPT ![p].k = @ + 1,
                                    ![p].asked = Append(@, idx),
                                    ![p].failed = @ \cup {<<idx, "command range">>}]
                            /\ UNCHANGED <<pc, call, lp, mu, fails, lastRun, dead>>
                       ELSE /\ poll' = [poll EXCEPT ![p].asked = Append(@, idx)]
                            /\ call' = [call EXCEPT ![p] =
                                          [NoCall EXCEPT !.op = "query",
                                             !.addr = DefaultDefinitions[idx].Addr]]
                            /\ pc' = [pc EXCEPT ![p] = "q_lock"]
                            /\ UNCHANGED <<lp, mu, fails, lastRun, dead>>
    /\ UNCHANGED <<isOpen, rx, wire, busMu, lastIO, userv>>

(* ------------------------------------------------------- ECU.SendCommand *)
\* after the echo loop: the timeout check and the echo check
\* the echo logged but not checked
EchoVerdictUnchecked(cmd, echoRead, buf) ==
    IF echoRead < 1
    THEN [err |-> Err("echo timeout", cmd, echoRead), flush |-> TRUE]
    ELSE [err |-> NoErr, flush |-> FALSE]

EchoVerdict(cmd, echoRead, buf) ==
    IF echoRead < 1
    THEN [err |-> Err("echo timeout", cmd, echoRead), flush |-> TRUE]
    ELSE IF buf[1] # cmd
         THEN [err |-> Err("command echo mismatch", cmd, buf[1]), flush |-> TRUE]
         ELSE [err |-> NoErr, flush |-> FALSE]

\* after the result loop: the timeout check, the result byte
ResultVerdict(cmd, resultRead, result) ==
    IF resultRead < 1
    THEN [err |-> Err("result timeout", cmd, resultRead), val |-> 0, flush |-> TRUE]
    ELSE [err |-> NoErr, val |-> result[1], flush |-> FALSE]

CmdCall(p, cmd, timeout) ==
    /\ pc[p] = "idle"
    /\ IF CommandRejects(cmd)
       THEN /\ call' = [call EXCEPT ![p] =
                          [NoCall EXCEPT !.op = "command", !.addr = cmd,
                                         !.err = Err("not a command", cmd, 0)]]
            /\ pc' = [pc EXCEPT ![p] = "done"]
       ELSE /\ call' = [call EXCEPT ![p] =
                          [NoCall EXCEPT !.op = "command", !.addr = cmd,
                                         !.timeout = timeout]]
            /\ pc' = [pc EXCEPT ![p] = "c_lock"]
    /\ UNCHANGED <<logv, isOpen, rx, wire, busMu, lastIO, poll>>

\* e.busMu.Lock()
CLock(p) ==
    /\ pc[p] = "c_lock"
    /\ BusFree
    /\ busMu' = p
    /\ pc' = [pc EXCEPT ![p] = "c_flush"]
    /\ UNCHANGED <<logv, isOpen, rx, wire, lastIO, call, poll>>

\* e.conn.Flush() before the command
CFlush(p) ==
    /\ pc[p] = "c_flush"
    /\ rx' = Flushed(rx)
    /\ call' = [call EXCEPT ![p].trace = Note(@, "flush")]
    /\ pc' = [pc EXCEPT ![p] = "c_send"]
    /\ UNCHANGED <<logv, isOpen, wire, busMu, lastIO, poll>>

\* e.conn.Send([]byte{cmd})
CSend(p, data) ==
    /\ pc[p] = "c_send"
    /\ \E wrote \in BOOLEAN :
         IF isOpen /\ wrote
         THEN /\ \E r \in DeviceReplies(call[p].addr, data) :
                   /\ Len(wire) + Len(rx) + Len(r) <= MaxLine
                   /\ wire' = wire \o r
              /\ lastIO' = p
              /\ call' = [call EXCEPT ![p].trace = Note(@, "send"),
                                      ![p].sent = Append(@, call[p].addr)]
              /\ pc' = [pc EXCEPT ![p] = "c_echo"]
         ELSE /\ call' = [call EXCEPT ![p].trace = Note(@, "send"),
                                      ![p].err = Err("send", call[p].addr, 0)]
              /\ pc' = [pc EXCEPT ![p] = "c_ret"]
              /\ UNCHANGED <<wire, lastIO>>
    /\ UNCHANGED <<logv, isOpen, rx, busMu, poll>>

\* one turn of the echo loop: conn.Receive(buf), buf of one byte
CEcho(p) ==
    /\ pc[p] = "c_echo"
    /\ call[p].totalRead < 1 /\ ~call[p].expired
    /\ \E failed \in BOOLEAN :
         IF ~isOpen \/ failed
         THEN /\ call' = [call EXCEPT ![p] = ReceiveFailure(@, "read echo")]
              /\ rx' = Flushed(rx)
              /\ pc' = [pc EXCEPT ![p] = "c_ret"]
              /\ lastIO' = lastIO
         ELSE /\ \E n \in RecvCounts(1) :
                   /\ call' = [call EXCEPT
                                 ![p].buf = Fill(@, 0, Take(rx, n)),
                                 ![p].totalRead = @ + n,
                                 ![p].expired = (n = 0),
                                 ![p].trace = Note(@, "recv")]
                   /\ rx' = Drop(rx, n)
              /\ lastIO' = p
              /\ pc' = pc
    /\ UNCHANGED <<logv, isOpen, wire, busMu, poll>>

\* the echo loop is over: timeout check, echo check; then the result loop
\* starts with its own buffer, the second place of buf here, and the
\* caller's timeout
CEchoCheck(p) ==
    /\ pc[p] = "c_echo"
    /\ ~(call[p].totalRead < 1 /\ ~call[p].expired)
    /\ LET c == call[p]
           v == EchoVerdict(c.addr, c.totalRead, c.buf)
       IN IF v.err # NoErr
          THEN /\ call' = [call EXCEPT ![p].err = v.err,
                             ![p].trace = IF v.flush THEN Note(@, "flush") ELSE @]
               /\ rx' = IF v.flush THEN Flushed(rx) ELSE rx
               /\ pc' = [pc EXCEPT ![p] = "c_ret"]
          ELSE /\ call' = [call EXCEPT ![p].totalRead = 0,
                                       ![p].expired = FALSE,
                                       ![p].trace = Note(@, "echo ok")]
               /\ rx' = rx
               /\ pc' = [pc EXCEPT ![p] = "c_result"]
    /\ UNCHANGED <<logv, isOpen, wire, busMu, lastIO, poll>>

\* one turn of the result loop: conn.Receive(result); a read that times out
\* uses up one read timeout of the caller's timeout
CResult(p) ==
    /\ pc[p] = "c_result"
    /\ call[p].totalRead < 1 /\ call[p].timeout > 0
    /\ \E failed \in BOOLEAN :
         IF ~isOpen \/ failed
         THEN /\ call' = [call EXCEPT ![p] = ReceiveFailure(@, "read result")]
              /\ rx' = Flushed(rx)
              /\ pc' = [pc EXCEPT ![p] = "c_ret"]
              /\ lastIO' = lastIO
         ELSE /\ \E n \in RecvCounts(1) :
                   /\ call' = [call EXCEPT
                                 ![p].buf = Fill(@, 1, Take(rx, n)),
                                 ![p].totalRead = @ + n,
                                 ![p].timeout = IF n = 0 THEN @ - 1 ELSE @,
                                 ![p].trace = Note(@, "recv")]
                   /\ rx' = Drop(rx, n)
              /\ lastIO' = p
              /\ pc' = pc
    /\ UNCHANGED <<logv, isOpen, wire, busMu, poll>>

CResultCheck(p) ==
    /\ pc[p] = "c_result"
    /\ ~(call[p].totalRead < 1 /\ call[p].timeout > 0)
    /\ LET c == call[p]
           v == ResultVerdict(c.addr, c.totalRead, <<c.buf[2]>>)
       IN /\ call' = [call EXCEPT ![p].err = v.err, ![p].val = v.val,
                        ![p].trace = IF v.flush THEN Note(@, "flush") ELSE @]
          /\ rx' = IF v.flush THEN Flushed(rx) ELSE rx
    /\ pc' = [pc EXCEPT ![p] = "c_ret"]
    /\ UNCHANGED <<logv, isOpen, wire, busMu, lastIO, poll>>

\* return: the deferred busMu.Unlock()
CRet(p) ==
    /\ pc[p] = "c_ret"
    /\ busMu' = AfterUnlock(p, call[p].err)
    /\ pc' = [pc EXCEPT ![p] = "done"]
    /\ call' = [call EXCEPT ![p] = RetOf(@)]
    /\ UNCHANGED <<logv, isOpen, rx, wire, lastIO, poll>>

QuerySteps(p, data) ==
    QLock(p) \/ QSend(p, data) \/ QRecv(p) \/ QCheck(p) \/ QRet(p)

CmdSteps(p, data) ==
    \/ CLock(p) \/ CFlush(p) \/ CSend(p, data) \/ CEcho(p) \/ CEchoCheck(p)
    \/ CResult(p) \/ CResultCheck(p) \/ CRet(p)

Device == Open \/ Close \/ Deliver

(* ------------------------------------- ECU.Probe, ReadDTCs and EraseDTCs *)
probeAddr == 33
AddrActiveDTCLow == 56
AddrActiveDTCHigh == 57
AddrStoredDTCLow == 59
AddrStoredDTCHigh == 60
AddrEraseDTC == 202

\* everything but app and the port
jobv == <<file, bw, given, log, importv, purev, loggerv, wire, busMu, lastIO>>

\* the caller is in none of the three methods
JobFree(p) == app.job[p].op = "none" \/ app.job[p].done

Job(op, addrs, opened) ==
    [NoJob EXCEPT !.op = op, !.addrs = addrs, !.opened = opened]

\* Probe up to its call of QuerySensor: e.conn.Flush(), with e.busMu not
\* taken
Probe(p) ==
    /\ pc[p] = "idle" /\ JobFree(p)
    /\ rx' = Flushed(rx)
    /\ app' = [app EXCEPT !.job[p] = Job("Probe", <<probeAddr>>, FALSE)]
    /\ UNCHANGED <<jobv, isOpen, pc, call, poll>>

\* ReadDTCs and EraseDTCs up to their first call: if !e.conn.IsOpen(), Open
\* (which may fail) and defer Close
OpenFor(p, op, addrs) ==
    /\ pc[p] = "idle" /\ JobFree(p)
    /\ IF isOpen
       THEN /\ app' = [app EXCEPT !.job[p] = Job(op, addrs, FALSE)]
            /\ isOpen' = isOpen
       ELSE \E opens \in BOOLEAN :
              IF opens
              THEN /\ isOpen' = TRUE
                   /\ app' = [app EXCEPT !.job[p] = Job(op, addrs, TRUE)]
              ELSE /\ isOpen' = isOpen
                   /\ app' = [app EXCEPT !.job[p] =
                                [Job(op, addrs, FALSE) EXCEPT !.done = TRUE,
                                                              !.err = "open"]]
    /\ UNCHANGED <<jobv, rx, pc, call, poll>>

ReadDTCs(p) ==
    OpenFor(p, "ReadDTCs", <<AddrActiveDTCLow, AddrActiveDTCHigh,
                            AddrStoredDTCLow, AddrStoredDTCHigh>>)

EraseDTCs(p) == OpenFor(p, "EraseDTCs", <<AddrEraseDTC>>)

\* the method's next call: QuerySensor of Probe and ReadDTCs, SendCommand
\* of EraseDTCs (1 second) and of the actuator tests (7 seconds)
JobCall(p) ==
    LET j == app.job[p]
    IN /\ ~JobFree(p)
       /\ j.step < Len(j.addrs)
       /\ IF j.op \in {"Probe", "ReadDTCs"}
          THEN QueryCall(p, j.addrs[j.step + 1])
          ELSE CmdCall(p, j.addrs[j.step + 1], MaxTimeout)

\* EraseDTCs: if result != 0x00, "unexpected erase DTC response"
EraseVerdict(op, val) ==
    IF op = "EraseDTCs" /\ val # 0 THEN "unexpected response" ELSE "none"

\* the call has returned: on an error the method returns it, else it goes
\* on to its next call or returns its result; the deferred Close runs on
\* every return
JobNext(p) ==
    LET j == app.job[p]
        c == call[p]
        last == c.err # NoErr \/ j.step + 1 = Len(j.addrs)
        after == IF c.err # NoErr
                 THEN [j EXCEPT !.done = TRUE, !.err = c.err.kind]
                 ELSE [j EXCEPT !.step = @ + 1, !.vals = Append(@, c.val),
                                !.done = last,
                                !.err = IF last THEN EraseVerdict(j.op, c.val)
                                        ELSE "none"]
    IN /\ ~JobFree(p)
       /\ pc[p] = "done"
       /\ app' = [app EXCEPT !.job[p] = after]
       /\ pc' = [pc EXCEPT ![p] = "idle"]
       /\ call' = [call EXCEPT ![p] = NoCall]
       /\ isOpen' = IF last /\ j.opened THEN FALSE ELSE isOpen
       /\ rx' = IF last /\ j.opened THEN <<>> ELSE rx
       /\ UNCHANGED <<jobv, poll>>

JobSteps(p) == JobCall(p) \/ JobNext(p)

(* ---------------------------------------------------------------- Logger *)
\* what a SamplePoller other than the ECU returns on success: the sample
\* without data of the test pollers, or a sample with data
MockSamples == {EmptySample, SetData(EmptySample, 17, 64)}

\* the goroutine ids not in use
Free == {g \in Loops : pc[g] = "off"}

\* what a subscriber may call on the logger from inside its callback
CallbackCalls == {"none", "Stop", "SetIndices", "OnSample", "IsRunning", "LastSample"}

\* Logger.IsRunning and Logger.LastSample, both under l.mu
IsRunning == running

LastSample == lastSample

\* Logger.OnSample
OnSample ==
    /\ mu = NoProc
    /\ callbacks < MaxCallbacks
    /\ callbacks' = callbacks + 1
    /\ UNCHANGED <<filev, isOpen, rx, wire, busMu, lastIO, pc, call, poll>>
    /\ UNCHANGED <<poller, running, ctx, cur, indices, lastSample, lp, mu, fails,
                   lastRun, dead, cbAfterStop, countTo>>

\* Logger.SetIndices
SetIndices(list) ==
    /\ mu = NoProc
    /\ indices' = list
    /\ UNCHANGED <<filev, isOpen, rx, wire, busMu, lastIO, pc, call, poll>>
    /\ UNCHANGED <<poller, running, ctx, cur, callbacks, lastSample, lp, mu, fails,
                   lastRun, dead, cbAfterStop, countTo>>

\* a Start that takes every call for the first
AlreadyRunningNever == FALSE

\* Logger.Start: if l.running
AlreadyRunning == running

\* Logger.Start: nothing when running, else a new context and a new loop
Start ==
    /\ mu = NoProc
    /\ IF AlreadyRunning
       THEN UNCHANGED vars
       ELSE /\ Free # {}
            /\ LET g == CHOOSE f \in Free : \A h \in Free : f <= h
               IN /\ cur' = g
                  /\ ctx' = [ctx EXCEPT ![g] = "live"]
                  /\ pc' = [pc EXCEPT ![g] = "l_select"]
                  /\ fails' = [fails EXCEPT ![g] = 0]
                  /\ lastRun' = [lastRun EXCEPT ![g] = 0]
                  /\ dead' = [dead EXCEPT ![g] = 0]
            /\ running' = TRUE
            /\ UNCHANGED <<filev, isOpen, rx, wire, busMu, lastIO, call, poll>>
            /\ UNCHANGED <<poller, indices, callbacks, lastSample, lp, mu,
                           cbAfterStop, countTo>>

\* Logger.Stop: nothing when not running, else cancel and running = false;
\* it does not wait for the loop
Stop ==
    /\ mu = NoProc
    /\ IF ~running
       THEN UNCHANGED vars
       ELSE /\ ctx' = [ctx EXCEPT ![cur] = "done"]
            /\ running' = FALSE
            /\ UNCHANGED <<filev, isOpen, rx, wire, busMu, lastIO, pc, call, poll>>
            /\ UNCHANGED <<poller, cur, indices, callbacks, lastSample, lp, mu,
                           fails, lastRun, dead, cbAfterStop, countTo>>

\* pollLoop, case <-ctx.Done(): return
LoopDone(g) ==
    /\ pc[g] = "l_select"
    /\ ctx[g] = "done"
    /\ pc' = [pc EXCEPT ![g] = "off"]
    /\ lp' = [lp EXCEPT ![g] = NoLoop]
    /\ UNCHANGED <<isOpen, rx, wire, busMu, lastIO, call, poll, userv>>
    /\ UNCHANGED <<mu, fails, lastRun, dead>>

\* a copy that leaves out the end of the list
TickListTruncated == IF indices = <<>> THEN <<>> ELSE <<Head(indices)>>

\* pollLoop: indices := make([]int, len(l.indices)); copy(indices, l.indices)
TickList == indices

\* pollLoop, case <-ticker.C: the snapshot of the indices under l.mu; with
\* none the loop sleeps and goes on, else it calls PollSensors. The select
\* may take this case when the context is cancelled too.
LoopTick(g) ==
    /\ pc[g] = "l_select"
    /\ mu = NoProc
    /\ IF TickList = <<>>
       THEN UNCHANGED <<pc, poll>>
       ELSE /\ poll' = [poll EXCEPT ![g] =
                          [NoPoll EXCEPT !.active = TRUE, !.indices = TickList]]
            /\ pc' = [pc EXCEPT ![g] = IF poller = "ecu" THEN "p_next" ELSE "m_poll"]
    /\ UNCHANGED <<isOpen, rx, wire, busMu, lastIO, call, logv>>

\* a test poller returns from PollSensors: a sample, or an error
MockReturn(g) ==
    /\ pc[g] = "m_poll"
    /\ \E ok \in BOOLEAN, s \in MockSamples :
         PollReturned(g, s, ok, Len(poll[g].indices), Len(poll[g].indices))
    /\ poll' = [poll EXCEPT ![g] = NoPoll]
    /\ UNCHANGED <<isOpen, rx, wire, busMu, lastIO, call, userv>>

\* a snapshot of the first subscriber alone
CallbackSnapshotFirst == Min(callbacks, 1)

\* pollLoop: callbacks := make(..., len(l.callbacks)); copy(callbacks, l.callbacks)
CallbackSnapshot == callbacks

\* the lock still held when the callbacks are invoked
MuHeldInCallbacks(g) == g

\* pollLoop: l.mu.Unlock() after the snapshot of the callbacks
MuAfterSnapshot(g) == NoProc

\* pollLoop under l.mu: lastSample = sample, the snapshot of the callbacks
LoopStore(g) ==
    /\ pc[g] = "l_store"
    /\ lastSample' = lp[g].sample
    /\ mu' = MuAfterSnapshot(g)
    /\ IF CallbackSnapshot = 0
       THEN /\ pc' = [pc EXCEPT ![g] = "l_select"]
            /\ lp' = [lp EXCEPT ![g] = [NoLoop EXCEPT !.cycles = lp[g].cycles]]
       ELSE /\ pc' = [pc EXCEPT ![g] = "l_notify"]
            /\ lp' = [lp EXCEPT ![g].cbs = CallbackSnapshot]
    /\ UNCHANGED <<filev, isOpen, rx, wire, busMu, lastIO, call, poll>>
    /\ UNCHANGED <<poller, running, ctx, cur, indices, callbacks, fails, lastRun,
                   dead, cbAfterStop, countTo>>

\* the callback the loop is about to invoke is one StartLogging registered
IsCSV(g) == app.made /\ lp[g].k >= 1

\* StartLogging's callback, first half: if a.csvWriter != nil - read by the
\* loop's goroutine, without a.mu
CsvRead(g) ==
    /\ pc[g] = "l_notify"
    /\ IsCSV(g)
    /\ app.saw = "unread"
    /\ app' = [app EXCEPT !.saw = app.csvWriter]
    /\ UNCHANGED <<file, bw, given, log, importv, purev, loggerv>>
    /\ UNCHANGED <<isOpen, rx, wire, busMu, lastIO, pc, call, poll>>

\* StartLogging's callback, second half: a.csvWriter.WriteSample(sample), on
\* the writer a.csvWriter holds now - a row, or a use of a writer that
\* StopLogging has closed and cleared since the first half
AfterWrite(a) ==
    IF a.csvWriter = "open"
    THEN [a EXCEPT !.saw = "unread", !.rows = @ + 1]
    ELSE [a EXCEPT !.saw = "unread", !.late = TRUE]

\* the App after the callback: StartMonitoring's callback emits the sample
\* to the frontend (the delivery of a sample begins with it), StartLogging's
\* writes if it has seen a writer
AfterCallback(g) ==
    IF ~app.made THEN app
    ELSE IF ~IsCSV(g)
         THEN [app EXCEPT !.rows = 0, !.whole = (app.csvWriter = "open")]
         ELSE IF app.saw = "nil" THEN [app EXCEPT !.saw = "unread"]
              ELSE AfterWrite(app)

\* pollLoop: the next callback of the snapshot is invoked and returns. The
\* subscriber may call the logger from inside it (does, with list for
\* SetIndices); each of these calls locks l.mu.
LoopNotify(g, does, list) ==
    /\ pc[g] = "l_notify"
    /\ IsCSV(g) => app.saw # "unread"
    /\ app' = AfterCallback(g)
    /\ does # "none" => mu = NoProc
    /\ cbAfterStop' = (cbAfterStop \/ ctx[g] = "done")
    /\ running' = IF does = "Stop" THEN FALSE ELSE running
    /\ ctx' = IF does = "Stop" /\ running THEN [ctx EXCEPT ![cur] = "done"] ELSE ctx
    /\ indices' = IF does = "SetIndices" THEN list ELSE indices
    /\ callbacks' = IF does = "OnSample" /\ callbacks < MaxCallbacks
                    THEN callbacks + 1 ELSE callbacks
    /\ IF lp[g].k + 1 < lp[g].cbs
       THEN /\ lp' = [lp EXCEPT ![g].k = @ + 1]
            /\ pc' = pc
       ELSE /\ lp' = [lp EXCEPT ![g] = [NoLoop EXCEPT !.cycles = lp[g].cycles]]
            /\ pc' = [pc EXCEPT ![g] = "l_select"]
    /\ UNCHANGED <<file, bw, given, log, importv, purev>>
    /\ UNCHANGED <<isOpen, rx, wire, busMu, lastIO, call, poll>>
    /\ UNCHANGED <<poller, cur, lastSample, mu, fails, lastRun, dead, countTo>>

LoopSteps(g) ==
    \/ LoopDone(g) \/ LoopTick(g) \/ MockReturn(g) \/ LoopStore(g)
    \/ LoopNotify(g, "none", <<>>)

(* -------------------------------------------------------------------- App *)
\* the calls of StartLogging one logger sees
MaxLogging == 2

\* RunActuatorTest: commands
commands ==
    [n \in {"fuel-pump", "purge", "pressure", "egr", "mvic", "boost",
            "inj1", "inj2", "inj3", "inj4", "inj5", "inj6"} |->
        CASE n = "fuel-pump" -> 246 [] n = "purge" -> 245 [] n = "pressure" -> 244
          [] n = "egr" -> 243 [] n = "mvic" -> 242 [] n = "boost" -> 241
          [] n = "inj1" -> 252 [] n = "inj2" -> 251 [] n = "inj3" -> 250
          [] n = "inj4" -> 249 [] n = "inj5" -> 248 [] n = "inj6" -> 247]

\* the commands the frontend asks for
CommandNames == {"fuel-pump", "inj6", "horn"}

\* a.mu: held by a method until it returns - by ReadDTCs, EraseDTCs and
\* RunActuatorTest over the whole exchange with the ECU, by StartMonitoring
\* up to the return of a.lg.Start(). Nothing runs after a panic.
Starting == app.lg /\ cur = NoProc

AppMuFree == ~app.panicked /\ JobFree(1) /\ pc[1] = "idle" /\ ~Starting

\* a method that returns err and changes nothing else
Returns(err) ==
    /\ app' = [app EXCEPT !.ret = err]
    /\ UNCHANGED <<jobv, isOpen, rx, pc, call, poll>>

\* App.Connect: NewSerialConn, Open (which may fail), NewECU
Connect ==
    /\ AppMuFree
    /\ IF app.connected
       THEN Returns("already connected")
       ELSE \E opens \in BOOLEAN :
              IF opens
              THEN /\ isOpen' = TRUE
                   /\ rx' = <<>>
                   /\ app' = [app EXCEPT !.connected = TRUE, !.ecu = TRUE,
                                         !.ret = "ok"]
                   /\ UNCHANGED <<jobv, pc, call, poll>>
              ELSE Returns("open")

\* App.ConnectDemo: a simulator, and no ECU
ConnectDemo ==
    /\ AppMuFree
    /\ IF app.connected
       THEN Returns("already connected")
       ELSE /\ app' = [app EXCEPT !.connected = TRUE, !.demoMode = TRUE,
                                  !.ret = "ok"]
            /\ UNCHANGED <<jobv, isOpen, rx, pc, call, poll>>

\* App.Disconnect: Stop of a running logger, Close of the CSV writer and of
\* the port, and every field cleared
Disconnect ==
    /\ AppMuFree
    /\ mu = NoProc
    /\ running' = FALSE
    /\ ctx' = IF app.lg /\ running THEN [ctx EXCEPT ![cur] = "done"] ELSE ctx
    /\ isOpen' = FALSE
    /\ rx' = <<>>
    /\ app' = [app EXCEPT !.connected = FALSE, !.demoMode = FALSE, !.ecu = FALSE,
                          !.lg = FALSE, !.csvWriter = "nil", !.whole = FALSE,
                          !.ret = "ok"]
    /\ UNCHANGED <<file, bw, given, log, importv, purev>>
    /\ UNCHANGED <<wire, busMu, lastIO, pc, call, poll>>
    /\ UNCHANGED <<poller, cur, indices, callbacks, lastSample, lp, mu, fails,
                   lastRun, dead, cbAfterStop, countTo>>

\* App.StartMonitoring up to a.lg.Start(): a new Logger on the simulator or
\* the ECU, with the callback that emits to the frontend. The loops of the
\* loggers before it have ended.
StartMonitoring ==
    /\ AppMuFree
    /\ IF ~app.connected
       THEN Returns("not connected")
       ELSE IF app.lg /\ IsRunning
            THEN Returns("ok")
            ELSE /\ mu = NoProc
                 /\ \A g \in Loops : pc[g] = "off"
                 /\ poller' = IF app.demoMode THEN "mock" ELSE "ecu"
                 /\ running' = FALSE
                 /\ cur' = NoProc
                 /\ callbacks' = 1
                 /\ lastSample' = EmptySample
                 /\ app' = [app EXCEPT !.lg = TRUE, !.made = TRUE, !.ret = "ok"]
                 /\ UNCHANGED <<file, bw, given, log, importv, purev>>
                 /\ UNCHANGED <<isOpen, rx, wire, busMu, lastIO, pc, call, poll>>
                 /\ UNCHANGED <<ctx, indices, lp, mu, fails, lastRun, dead,
                                cbAfterStop, countTo>>

\* App.StartMonitoring: return a.lg.Start()
MonitoringStart == ~app.panicked /\ Starting /\ Start

\* App.StopMonitoring
StopMonitoring == AppMuFree /\ app.lg /\ Stop

\* App.StartLogging: a new CSV writer (the file may not be created), and a
\* callback on the logger there is, if any
StartLogging ==
    /\ AppMuFree
    /\ IF app.csvWriter # "nil"
       THEN Returns("already logging")
       ELSE \E created \in BOOLEAN :
              IF ~created
              THEN Returns("create")
              ELSE /\ mu = NoProc
                   /\ callbacks <= MaxLogging
                   /\ callbacks' = IF app.lg THEN callbacks + 1 ELSE callbacks
                   /\ app' = [app EXCEPT !.csvWriter = "open", !.ret = "ok"]
                   /\ UNCHANGED <<file, bw, given, log, importv, purev>>
                   /\ UNCHANGED <<isOpen, rx, wire, busMu, lastIO, pc, call, poll>>
                   /\ UNCHANGED <<poller, running, ctx, cur, indices, lastSample,
                                  lp, mu, fails, lastRun, dead, cbAfterStop,
                                  countTo>>

\* App.StopLogging: Close, and a.csvWriter = nil
StopLogging ==
    /\ AppMuFree
    /\ app.csvWriter # "nil"
    /\ app' = [app EXCEPT !.csvWriter = "nil", !.whole = FALSE, !.ret = "ok"]
    /\ UNCHANGED <<jobv, isOpen, rx, pc, call, poll>>

\* a method of a nil *ECU: the first use of a field of e panics
Panics ==
    /\ app' = [app EXCEPT !.panicked = TRUE]
    /\ UNCHANGED <<jobv, isOpen, rx, pc, call, poll>>

\* App.ReadDTCs: return a.ecu.ReadDTCs()
AppReadDTCs ==
    /\ AppMuFree
    /\ IF ~app.connected THEN Returns("not connected")
       ELSE IF ~app.ecu THEN Panics
            ELSE ReadDTCs(1)

\* App.EraseDTCs: return a.ecu.EraseDTCs()
AppEraseDTCs ==
    /\ AppMuFree
    /\ IF ~app.connected THEN Returns("not connected")
       ELSE IF ~app.ecu THEN Panics
            ELSE EraseDTCs(1)

\* App.RunActuatorTest: a.ecu.SendCommand(addr, 7*time.Second)
RunActuatorTest(command) ==
    /\ AppMuFree
    /\ IF ~app.connected THEN Returns("not connected")
       ELSE IF command \notin DOMAIN commands THEN Returns("unknown command")
            ELSE IF ~app.ecu THEN Panics
                 ELSE /\ app' = [app EXCEPT !.job[1] =
                                   Job("SendCommand", <<commands[command]>>, FALSE)]
                      /\ UNCHANGED <<jobv, isOpen, rx, pc, call, poll>>


(* ------------------------------------------------- native binary log (.mmcd) *)
mmcdHeaderSize == 16
mmcdSampleSize == 48
mmcdVersion == 1

\* "MMCD"
mmcdMagic == <<77, 77, 67, 68>>

\* sensor.UnitSystem: metric, english, raw
UnitSystems == {0, 1, 2}

\* a time as its int64 of nanoseconds since the epoch, in four 16-bit words,
\* the lowest first
Times == {<<513, 1, 0, 6000>>, <<58113, 1526, 0, 6000>>}

\* the lists of slot indices a log is made for
LogLists == {<<>>, <<17>>, <<4, 31>>}

RawOfList(bytes) == [i \in Slots |-> IF i < Len(bytes) THEN bytes[i + 1] ELSE 0]

\* the samples written to a log
LogSamples ==
    {[Time |-> t, DataPresent |-> s[1], RawData |-> RawOfList(s[2])] :
        t \in Times, s \in {<<{}, <<>>>>, <<{0, 17, 31}, <<255, 1, 2>>>>}}

\* binary.LittleEndian.PutUint16 / PutUint32 / Uint16 / Uint32
PutUint16(n) == <<n % 256, (n \div 256) % 256>>

PutUint32(n) ==
    <<n % 256, (n \div 256) % 256, (n \div 65536) % 256, (n \div 16777216) % 256>>

Uint16(b) == b[1] + 256 * b[2]

Uint32(b) == b[1] + 256 * b[2] + 65536 * b[3] + 16777216 * b[4]

\* PutUint64(uint64(t.UnixNano())) / time.Unix(0, int64(Uint64(b)))
PutUint64(t) == PutUint16(t[1]) \o PutUint16(t[2]) \o PutUint16(t[3]) \o PutUint16(t[4])

Uint64(b) ==
    <<Uint16(SubSeq(b, 1, 2)), Uint16(SubSeq(b, 3, 4)),
      Uint16(SubSeq(b, 5, 6)), Uint16(SubSeq(b, 7, 8))>>

\* Sample.DataPresent, a uint32 with bit i for slot i, as the set of its slots
Bit(mask, i) == IF i \in mask THEN 1 ELSE 0

MaskByte(mask, j) ==
    Bit(mask, 8 * j) + 2 * Bit(mask, 8 * j + 1) + 4 * Bit(mask, 8 * j + 2)
        + 8 * Bit(mask, 8 * j + 3) + 16 * Bit(mask, 8 * j + 4)
        + 32 * Bit(mask, 8 * j + 5) + 64 * Bit(mask, 8 * j + 6)
        + 128 * Bit(mask, 8 * j + 7)

PutMask(mask) == [j \in 1..4 |-> MaskByte(mask, j - 1)]

MaskOf(b) == {i \in Slots : (b[(i \div 8) + 1] \div (2 ^ (i % 8))) % 2 = 1}

\* NewBinaryWriter: the header and the sensor index table
Header(list, units, count) ==
    mmcdMagic \o <<mmcdVersion, units % 256>> \o PutUint16(Len(list) % 65536)
        \o PutUint32(count) \o <<0, 0, 0, 0>>

IndexTable(list) == [i \in 1..Len(list) |-> list[i] % 256]

\* a record with the raw array right after the mask
SampleRecordNoPadding(s) ==
    PutUint64(s.Time) \o PutMask(s.DataPresent)
        \o [i \in 1..MaxSensors |-> s.RawData[i - 1]] \o <<0, 0, 0, 0>>

\* WriteSample: the 48 bytes of a sample
SampleRecord(s) ==
    PutUint64(s.Time) \o PutMask(s.DataPresent) \o <<0, 0, 0, 0>>
        \o [i \in 1..MaxSensors |-> s.RawData[i - 1]]

\* ReadBinaryLog: a sample from its 48 bytes
SampleOf(buf) ==
    [Time |-> Uint64(SubSeq(buf, 1, 8)),
     DataPresent |-> MaskOf(SubSeq(buf, 9, 12)),
     RawData |-> [i \in Slots |-> buf[17 + i]]]

\* the count written where the file ends, without the Seek
WithCountAppended(f, count) == f \o PutUint32(count)

\* Close: the sample count written over bytes 8..11 of the file
WithCount(f, count) ==
    [i \in 1..Len(f) |-> IF i \in 9..12 THEN PutUint32(count)[i - 8] ELSE f[i]]

\* the largest capacity make([]sensor.Sample, 0, n) gets on every build:
\* 4 GiB of samples of 64 bytes
MaxSliceCap == 67108864

\* a check of the first byte of the tag alone
MagicOkFirstByte(header) == header[1] = mmcdMagic[1]

\* string(header[0:4]) == mmcdMagic
MagicOk(header) == SubSeq(header, 1, 4) = mmcdMagic

\* ReadBinaryLog of a file with these bytes; mem tells whether the build and
\* the machine give the memory the make asks for beyond MaxSliceCap samples.
\* The last outcome is not a return: the process ends in the make.
ReadBinaryLog(f, mem) ==
    IF Len(f) < mmcdHeaderSize
    THEN [err |-> "failed to read header"]
    ELSE IF ~MagicOk(SubSeq(f, 1, mmcdHeaderSize))
    THEN [err |-> "bad magic"]
    ELSE LET sensorCount == Uint16(SubSeq(f, 7, 8))
             start == mmcdHeaderSize + sensorCount
         IN IF Len(f) < start
            THEN [err |-> "failed to read index table"]
            ELSE IF Uint32(SubSeq(f, 9, 12)) > MaxSliceCap /\ ~mem
            THEN [err |-> "out of memory"]
            ELSE [err |-> "none",
                  Version |-> f[5],
                  Units |-> f[6],
                  SampleCount |-> Uint32(SubSeq(f, 9, 12)),
                  Indices |-> SubSeq(f, mmcdHeaderSize + 1, start),
                  Samples |->
                    [n \in 1..((Len(f) - start) \div mmcdSampleSize) |->
                        SampleOf(SubSeq(f, start + (n - 1) * mmcdSampleSize + 1,
                                        start + n * mmcdSampleSize))]]

NewBinaryWriter(list, units) ==
    /\ bw.state = "none"
    /\ file' = Header(list, units, 0) \o IndexTable(list)
    /\ bw' = [state |-> "open", sampleCount |-> 0]
    /\ given' = [indices |-> list, units |-> units, samples |-> <<>>]
    /\ UNCHANGED <<log, isOpen, rx, wire, busMu, lastIO, pc, call, poll>>
    /\ UNCHANGED <<loggerv, importv, purev, app>>

WriteSample(s) ==
    /\ bw.state = "open"
    /\ bw.sampleCount < MaxSamples
    /\ file' = file \o SampleRecord(s)
    /\ bw' = [bw EXCEPT !.sampleCount = @ + 1]
    /\ given' = [given EXCEPT !.samples = Append(@, s)]
    /\ UNCHANGED <<log, isOpen, rx, wire, busMu, lastIO, pc, call, poll>>
    /\ UNCHANGED <<loggerv, importv, purev, app>>

\* BinaryWriter.Close
CloseWriter ==
    /\ bw.state = "open"
    /\ file' = WithCount(file, bw.sampleCount)
    /\ bw' = [bw EXCEPT !.state = "closed"]
    /\ UNCHANGED <<given, log, isOpen, rx, wire, busMu, lastIO, pc, call, poll>>
    /\ UNCHANGED <<loggerv, importv, purev, app>>

\* ReadBinaryLog(filename) of a file with these bytes
ReadFile(kind, f, mem) ==
    /\ log' = [result |-> ReadBinaryLog(f, mem),
               closed |-> kind = "written" /\ bw.state = "closed",
               count |-> bw.sampleCount, kind |-> kind, bytes |-> f]
    /\ UNCHANGED <<file, bw, given, isOpen, rx, wire, busMu, lastIO, pc, call, poll>>
    /\ UNCHANGED <<loggerv, importv, purev, app>>

\* ReadBinaryLog(filename) of the file as it is
ReadLog ==
    /\ bw.state # "none"
    /\ \E mem \in BOOLEAN : ReadFile("written", file, mem)

\* the places a copy of the file is cut at: in the header, in the index
\* table, in the first and in the second record, and between them
CutPoints == {0, 3, 15, 16, 17, 19, 63, 64, 65, 66, 113}

\* of a copy of the file that ends after its first n bytes
ReadCut(n) ==
    /\ bw.state # "none"
    /\ n < Len(file)
    /\ \E mem \in BOOLEAN : ReadFile("cut", SubSeq(file, 1, n), mem)

\* the values in the sample-count field of a file that is read
HeaderCounts == {0, 1, MaxSliceCap, 2147483647}

\* of a copy of the file with another value in the sample-count field
ReadCounted(count) ==
    /\ bw.state # "none"
    /\ \E mem \in BOOLEAN : ReadFile("counted", WithCount(file, count), mem)

\* of a copy of the file with another byte in one place of the magic tag
ReadTagged(i, b) ==
    /\ bw.state # "none"
    /\ b # file[i]
    /\ \E mem \in BOOLEAN :
          ReadFile("tagged", [file EXCEPT ![i] = b], mem)

\* "not a valid mmcd file", and a file with nothing in it
ForeignFiles ==
    {<<110, 111, 116, 32, 97, 32, 118, 97, 108, 105, 100, 32, 109, 109, 99,
       100, 32, 102, 105, 108, 101>>, <<>>}

\* of a file no BinaryWriter made
ReadForeign(f) == \E mem \in BOOLEAN : ReadFile("foreign", f, mem)

NextBinary ==
    \/ \E l \in LogLists, u \in UnitSystems : NewBinaryWriter(l, u)
    \/ \E s \in LogSamples : WriteSample(s)
    \/ CloseWriter
    \/ ReadLog
    \/ \E n \in CutPoints : ReadCut(n)
    \/ \E c \in HeaderCounts : ReadCounted(c)
    \/ \E i \in 1..4, b \in {77, 100} : ReadTagged(i, b)
    \/ \E f \in ForeignFiles : ReadForeign(f)

SpecBinary == Init /\ [][NextBinary]_vars

(* ------------------------------------------ legacy import file (PalmOS PDB) *)
\* seconds from the PalmOS epoch, 1 January 1904, to the Unix epoch
palmOSEpochOffset == 2082844800

pdbHeaderSize == 78
pdbRecordEntrySize == 8
graphSampleSize == 40

\* "strm", "MMCd", "DBLK"
pdbType == <<115, 116, 114, 109>>
pdbCreator == <<77, 77, 67, 100>>
pdbBlock == <<68, 66, 76, 75>>

\* binary.BigEndian of a uint16 and of a uint32 below 2^31
PutBE16(n) == <<(n \div 256) % 256, n % 256>>

PutBE32(n) ==
    <<(n \div 16777216) % 256, (n \div 65536) % 256, (n \div 256) % 256, n % 256>>

BE16(b) == 256 * b[1] + b[2]

BE32(b) == 16777216 * b[1] + 65536 * b[2] + 256 * b[3] + b[4]

Zeros(n) == [i \in 1..n |-> 0]

\* a uint32 of seconds is kept as its two 16-bit words, the high one first
PutTime(t) == PutBE16(t[1]) \o PutBE16(t[2])

TimeOfBE(b) == <<BE16(SubSeq(b, 1, 2)), BE16(SubSeq(b, 3, 4))>>

\* the presence mask, big-endian
PutMaskBE(mask) ==
    <<MaskByte(mask, 3), MaskByte(mask, 2), MaskByte(mask, 1), MaskByte(mask, 0)>>

MaskOfBE(b) == MaskOf(<<b[4], b[3], b[2], b[1]>>)

(* the file as the PalmOS application lays it out *)
\* a GraphSample: Time, DataPresent, Data
GraphSample(t, mask, data) == [Time |-> t, DataPresent |-> mask, Data |-> data]

GraphSampleBytes(g) ==
    PutTime(g.Time) \o PutMaskBE(g.DataPresent) \o [i \in 1..MaxSensors |-> g.Data[i - 1]]

RECURSIVE Flatten(_)
Flatten(seqs) == IF seqs = <<>> THEN <<>> ELSE Head(seqs) \o Flatten(Tail(seqs))

\* a record body: the block tag, the block size, the samples
RecordBytes(r) ==
    r.tag \o PutBE32(graphSampleSize * Len(r.entries))
        \o Flatten([j \in 1..Len(r.entries) |-> GraphSampleBytes(r.entries[j])])

\* where the body of record i begins in a file with these records; with
\* i = Len(recs) + 1, the size of the file
RECURSIVE BodyOffset(_, _)
BodyOffset(recs, i) ==
    IF i = 1
    THEN pdbHeaderSize + pdbRecordEntrySize * Len(recs)
    ELSE BodyOffset(recs, i - 1) + Len(RecordBytes(recs[i - 1]))

\* the DataOffset in the index entry of record i: that of its body, that of
\* the body that follows (or the end of the file), or one far behind the end
DataOffset(recs, i) ==
    CASE recs[i].off = "ok" -> BodyOffset(recs, i)
      [] recs[i].off = "next" -> BodyOffset(recs, i + 1)
      [] recs[i].off = "past" -> 60000

\* pdbHeader: the name in 32 bytes, the type at 60, the creator at 64, the
\* number of records at 76
PDBHeaderBytes(p) ==
    p.name \o Zeros(32 - Len(p.name)) \o Zeros(28) \o p.type \o p.creator
        \o Zeros(8) \o PutBE16(Len(p.recs))

PDBFile(p) ==
    PDBHeaderBytes(p)
        \o Flatten([i \in 1..Len(p.recs) |->
                      PutBE32(DataOffset(p.recs, i)) \o Zeros(4)])
        \o Flatten([i \in 1..Len(p.recs) |-> RecordBytes(p.recs[i])])

(* ParsePDB *)
\* the time zones of the machine that imports, in seconds east of UTC
Zones == {-28800, 0, 32400}

\* days from 1 January 1904 to the Unix epoch
EpochDay == palmOSEpochOffset \div 86400

\* the calendar year of a day counted from the Unix epoch, for 1904..2099
YearOfDay(d) ==
    LET e == d + EpochDay
        r == e % 1461
    IN IF e < 0
       THEN 1903
       ELSE 1904 + 4 * (e \div 1461) + (IF r < 366 THEN 0 ELSE 1 + (r - 366) \div 365)

\* unixSec := int64(raw.Time) - palmOSEpochOffset, in units of 4 seconds
UnixQuarter(t) == (t[1] * 16384 + (t[2] \div 4)) - (palmOSEpochOffset \div 4)

\* time.Unix(unixSec, 0) as the day from the Unix epoch and the second of it
UnixTime(t) ==
    [day |-> UnixQuarter(t) \div 21600,
     sec |-> 4 * (UnixQuarter(t) % 21600) + (t[2] % 4)]

\* sampleTime.Year(), in the zone of the machine
Year(t, zone) == YearOfDay((UnixQuarter(t) + zone \div 4) \div 21600)

\* a filter that lets the mask with all bits set through
KeepsAllOnes(raw, zone) ==
    /\ raw.Time # <<0, 0>> /\ raw.DataPresent # {}
    /\ Year(raw.Time, zone) >= 1995 /\ Year(raw.Time, zone) <= 2030

\* ParsePDB: the sample is not skipped
Keeps(raw, zone) ==
    /\ ~(raw.Time = <<0, 0>> \/ raw.DataPresent = {})
    /\ raw.DataPresent # Slots
    /\ ~(Year(raw.Time, zone) < 1995 \/ Year(raw.Time, zone) > 2030)

\* binary.Read of a graphSampleRaw from 40 bytes
GraphSampleOf(buf) ==
    GraphSample(TimeOfBE(SubSeq(buf, 1, 4)), MaskOfBE(SubSeq(buf, 5, 8)),
                [i \in Slots |-> buf[9 + i]])

\* the sensor.Sample made of a graphSampleRaw
SampleOfRaw(raw) ==
    [Time |-> UnixTime(raw.Time), DataPresent |-> raw.DataPresent, RawData |-> raw.Data]

\* the loop over the samples of a record, from sample j at position pos
RECURSIVE SamplesFrom(_, _, _, _, _)
SamplesFrom(f, zone, pos, j, numSamples) ==
    IF j >= numSamples \/ pos + graphSampleSize > Len(f)
    THEN <<>>
    ELSE LET raw == GraphSampleOf(SubSeq(f, pos + 1, pos + graphSampleSize))
         IN (IF Keeps(raw, zone) THEN <<SampleOfRaw(raw)>> ELSE <<>>)
                \o SamplesFrom(f, zone, pos + graphSampleSize, j + 1, numSamples)

\* int(dataLen) / graphSampleSize: the quotient rounds towards zero
Quot(a, b) == IF a < 0 THEN -((-a) \div b) ELSE a \div b

\* records[i].DataOffset
OffsetOf(f, i) ==
    BE32(SubSeq(f, pdbHeaderSize + pdbRecordEntrySize * (i - 1) + 1,
                   pdbHeaderSize + pdbRecordEntrySize * (i - 1) + 4))

\* the import gives up at the first record it cannot use
AfterSkipStop(i, n) == n + 1

\* ParsePDB: continue, to the next record
AfterSkip(i, n) == i + 1

\* the loop over the records, from record i of n
RECURSIVE RecordsFrom(_, _, _, _)
RecordsFrom(f, zone, i, n) ==
    IF i > n
    THEN <<>>
    ELSE LET fileSize == Len(f)
             recordEnd == IF i + 1 <= n THEN OffsetOf(f, i + 1) ELSE fileSize
             recordStart == OffsetOf(f, i)
         IN IF recordStart >= fileSize \/ recordStart >= recordEnd
            THEN RecordsFrom(f, zone, AfterSkip(i, n), n)
            ELSE IF recordStart + 8 > fileSize
            THEN RecordsFrom(f, zone, AfterSkip(i, n), n)
            ELSE IF SubSeq(f, recordStart + 1, recordStart + 4) # pdbBlock
            THEN RecordsFrom(f, zone, AfterSkip(i, n), n)
            ELSE SamplesFrom(f, zone, recordStart + 8, 0,
                             Quot(recordEnd - recordStart - 8, graphSampleSize))
                    \o RecordsFrom(f, zone, i + 1, n)

\* the name up to its first zero byte
NameOf(nameBytes) ==
    LET zeros == {i \in 1..Len(nameBytes) : nameBytes[i] = 0}
        nameEnd == IF zeros = {} THEN 0
                   ELSE (CHOOSE i \in zeros : \A j \in zeros : i <= j) - 1
    IN SubSeq(nameBytes, 1, IF nameEnd = 0 THEN Len(nameBytes) ELSE nameEnd)

\* a check that is content with one of the two tags
TagsOkEither(typeStr, creatorStr) == typeStr = pdbType \/ creatorStr = pdbCreator

\* ParsePDB: the type and the creator are those of an MMCd log
TagsOk(typeStr, creatorStr) == ~(typeStr # pdbType \/ creatorStr # pdbCreator)

\* ParsePDB of a file with these bytes, on a machine in this zone
ParsePDB(f, zone) ==
    IF Len(f) < pdbHeaderSize
    THEN [err |-> "failed to read PDB header"]
    ELSE IF ~TagsOk(SubSeq(f, 61, 64), SubSeq(f, 65, 68))
    THEN [err |-> "not an MMCd log file"]
    ELSE LET n == BE16(SubSeq(f, 77, 78))
         IN IF Len(f) < pdbHeaderSize + pdbRecordEntrySize * n
            THEN [err |-> "failed to read record index entry"]
            ELSE [err |-> "none",
                  Name |-> NameOf(SubSeq(f, 1, 32)),
                  Samples |-> RecordsFrom(f, zone, 1, n)]

(* the files that are imported *)
Raw(pairs) == [i \in Slots |-> IF \E q \in pairs : q[1] = i
                               THEN (CHOOSE q \in pairs : q[1] = i)[2] ELSE 0]

\* 17 January 2003, 12:00:00 and 12:00:01 UTC
Good == GraphSample(<<47693, 41152>>, {4, 17}, Raw({<<4, 128>>, <<17, 64>>}))
Good2 == GraphSample(<<47693, 41153>>, {17, 19, 22}, Raw({<<17, 66>>, <<19, 255>>, <<22, 1>>}))

\* samples that the import drops, and samples at the ends of the range of
\* years: the last second of 1994 and the first of 1995 UTC, the last of 2030
\* and the first of 2031 UTC, and the last second a uint32 holds, in 2040
Edge ==
    {GraphSample(<<0, 0>>, {4}, Raw({<<4, 128>>})),
     GraphSample(<<47693, 41152>>, {}, Raw({<<4, 128>>})),
     GraphSample(<<47693, 41152>>, Slots, [i \in Slots |-> 255]),
     GraphSample(<<43819, 41215>>, {4}, Raw({<<4, 1>>})),
     GraphSample(<<43819, 41216>>, {4}, Raw({<<4, 2>>})),
     GraphSample(<<61154, 48255>>, {4}, Raw({<<4, 3>>})),
     GraphSample(<<61154, 48256>>, {4}, Raw({<<4, 4>>})),
     GraphSample(<<65535, 65535>>, {4}, Raw({<<4, 5>>}))}

\* a tag that is not "DBLK" and that, read as a time, is a day of 2010
OtherBlock == <<200, 66, 76, 75>>

PDBRecord(tag, entries, off) == [tag |-> tag, entries |-> entries, off |-> off]

\* the records of the files: blocks of none, one or two samples, a record
\* with another tag, and records with a DataOffset that is not their own
PDBRecords ==
    {PDBRecord(pdbBlock, <<>>, "ok"), PDBRecord(pdbBlock, <<Good>>, "ok"),
     PDBRecord(pdbBlock, <<Good, Good2>>, "ok"),
     PDBRecord(OtherBlock, <<Good>>, "ok"),
     PDBRecord(OtherBlock, <<Good2>>, "next"),
     PDBRecord(pdbBlock, <<Good2>>, "next"),
     PDBRecord(pdbBlock, <<Good2>>, "past")}
        \cup {PDBRecord(pdbBlock, <<g>>, "ok") : g \in Edge}
        \cup {PDBRecord(pdbBlock, <<g, Good2>>, "ok") : g \in Edge}

\* "LOG"
PDBNames == {<<76, 79, 71>>}

\* other contents of the name field: 32 letters, none (a field of zero
\* bytes), and a zero byte before a letter
OtherNames == {[i \in 1..32 |-> 65 + (i % 26)], <<>>, <<0, 88>>}

\* the headers: that of an MMCd log, and two with one tag of another kind
\* ("data", "MMCD")
PDBTags == {<<pdbType, pdbCreator>>, <<<<100, 97, 116, 97>>, pdbCreator>>,
            <<pdbType, <<77, 77, 67, 68>>>>}

PDBFiles ==
    {[type |-> t[1], creator |-> t[2], name |-> nm, recs |-> recs] :
        t \in PDBTags, nm \in PDBNames,
        recs \in {<<>>} \cup {<<r>> : r \in PDBRecords}
                 \cup {<<r, s>> : r \in PDBRecords, s \in PDBRecords}}
      \cup {[type |-> pdbType, creator |-> pdbCreator, name |-> nm, recs |-> recs] :
               nm \in OtherNames,
               recs \in {<<>>, <<PDBRecord(pdbBlock, <<Good, Good2>>, "ok")>>}}

\* a legacy file is at hand
TakePDB(p) ==
    /\ pdb = NoPDB /\ parsed = NoParse
    /\ pdb' = p
    /\ UNCHANGED <<file, bw, given, log, parsed, purev, loggerv, app>>
    /\ UNCHANGED <<isOpen, rx, wire, busMu, lastIO, pc, call, poll>>

\* ParsePDB(filename) of a file with these bytes
ParseBytes(how, f, zone) ==
    /\ parsed = NoParse
    /\ parsed' = [result |-> ParsePDB(f, zone), how |-> how, of |-> pdb,
                  size |-> Len(f), zone |-> zone]
    /\ UNCHANGED <<file, bw, given, log, pdb, purev, loggerv, app>>
    /\ UNCHANGED <<isOpen, rx, wire, busMu, lastIO, pc, call, poll>>

\* of the file as it is
ParseFile(zone) ==
    /\ pdb # NoPDB
    /\ ParseBytes("whole", PDBFile(pdb), zone)

\* the places a copy of the file is cut at: in the header, in the index, in
\* the tag and in the size of the first block, in and after its samples
PDBCuts == {0, 77, 78, 85, 93, 97, 101, 133, 142, 181}

\* of a copy of the file that ends after its first n bytes
ParseCut(zone, n) ==
    /\ pdb # NoPDB
    /\ n < Len(PDBFile(pdb))
    /\ ParseBytes("cut", SubSeq(PDBFile(pdb), 1, n), zone)

\* "this is not a PDB file"
NotAPDB ==
    <<116, 104, 105, 115, 32, 105, 115, 32, 110, 111, 116, 32, 97, 32, 80, 68,
      66, 32, 102, 105, 108, 101>>

\* of a file that is no PalmOS database
ParseText(zone) == ParseBytes("text", NotAPDB, zone)

NextPDB ==
    \/ pdb = NoPDB /\ \E p \in PDBFiles : TakePDB(p)
    \/ parsed = NoParse /\ \E z \in Zones : ParseFile(z)
    \/ parsed = NoParse /\ \E z \in Zones, n \in PDBCuts : ParseCut(z, n)
    \/ parsed = NoParse /\ \E z \in Zones : ParseText(z)

SpecPDB == Init /\ [][NextPDB]_vars

(* ------------------------------------------------------------ decodeDTCs *)
DTCCode(bit, code, description) ==
    [Bit |-> bit, Code |-> code, Description |-> description]

\* dtcTable[i] of the source is dtcTable[i + 1] here
dtcTable ==
    <<DTCCode(0, "11", "Oxygen sensor"),
      DTCCode(1, "12", "Intake air flow sensor"),
      DTCCode(2, "13", "Intake air temperature sensor"),
      DTCCode(3, "14", "Throttle position sensor"),
      DTCCode(4, "15", "ISC motor position sensor"),
      DTCCode(5, "21", "Engine coolant temperature sensor"),
      DTCCode(6, "22", "Engine speed sensor"),
      DTCCode(7, "23", "TDC sensor"),
      DTCCode(8, "24", "Vehicle speed sensor"),
      DTCCode(9, "25", "Barometric pressure sensor"),
      DTCCode(10, "31", "Knock sensor"),
      DTCCode(11, "41", "Injector circuit"),
      DTCCode(12, "42", "Fuel pump relay"),
      DTCCode(13, "43", "EGR"),
      DTCCode(14, "44", "Ignition coil"),
      DTCCode(15, "36", "Ignition circuit")>>

\* a test of the bit above
BitSetAbove(bitmap, i) == (bitmap \div (2 ^ (i + 1))) % 2 = 1

\* bitmap&(1<<uint(i)) != 0
BitSet(bitmap, i) == (bitmap \div (2 ^ i)) % 2 = 1

\* the loop of decodeDTCs from i on
RECURSIVE decodeFrom(_, _)
decodeFrom(bitmap, i) ==
    IF i >= 16
    THEN <<>>
    ELSE (IF BitSet(bitmap, i) THEN <<dtcTable[i + 1]>> ELSE <<>>)
            \o decodeFrom(bitmap, i + 1)

decodeDTCs(bitmap) == decodeFrom(bitmap, 0)

\* ReadDTCs: the bitmap of a low and a high byte, and its decoding
DecodeDTCs(low, high) ==
    /\ dtc = NoDTC
    /\ LET raw == low + 256 * high
       IN dtc' = [bitmap |-> raw, codes |-> decodeDTCs(raw)]
    /\ UNCHANGED <<file, bw, given, log, importv, calc, loggerv, app>>
    /\ UNCHANGED <<isOpen, rx, wire, busMu, lastIO, pc, call, poll>>

NextDTC ==
    dtc = NoDTC /\ \E low \in Byte, high \in Byte : DecodeDTCs(low, high)

SpecDTC == Init /\ [][NextDTC]_vars

(* ---------------------------------------------------- ComputeDerivatives *)
\* the samples ComputeDerivatives is applied to: engine speed (slot 17),
\* pulse width (slot 19), duty cycle (slot 20) and coolant (slot 4), each
\* present or not, with raw bytes that were set or left over
CalcSamples ==
    {[Time |-> <<513, 1, 0, 6000>>, DataPresent |-> present,
      RawData |-> [i \in Slots |->
                     CASE i = 17 -> e [] i = 19 -> p [] i = 20 -> d
                       [] i = 4 -> 128 [] OTHER -> 0]] :
        present \in SUBSET {4, 17, 19, 20},
        e \in {0, 64, 255}, p \in {0, 117, 255}, d \in {0, 7}}

\* a sample is taken
TakeSample(s) ==
    /\ calc = NoCalc
    /\ calc' = [outs |-> <<s>>]
    /\ UNCHANGED <<file, bw, given, log, importv, dtc, loggerv, app>>
    /\ UNCHANGED <<isOpen, rx, wire, busMu, lastIO, pc, call, poll>>

\* sample.ComputeDerivatives(defs), on the sample as the last call left it
Derive ==
    /\ calc # NoCalc
    /\ Len(calc.outs) <= MaxApply
    /\ calc' = [outs |-> Append(calc.outs, ComputeDerivatives(Last(calc.outs)))]
    /\ UNCHANGED <<file, bw, given, log, importv, dtc, loggerv, app>>
    /\ UNCHANGED <<isOpen, rx, wire, busMu, lastIO, pc, call, poll>>

\* the lists and the data bytes of the polls that give a duty cycle
DutyLists == {<<17, 19>>, <<19, 17>>, <<19, 20, 17>>}

DutyBytes == {64, 255}

\* ComputeDerivatives applied to a sample taken, or by PollSensors
NextDerive ==
    \/ pc[1] = "idle" /\ \E s \in CalcSamples : TakeSample(s)
    \/ Derive
    \/ /\ calc = NoCalc
       /\ \/ Device
          \/ \E l \in DutyLists : PollCall(1, l)
          \/ PollNext(1)
          \/ QuerySteps(1, DutyBytes)
          \/ Forget(1)

SpecDerive == Init /\ [][NextDerive]_vars

\* one caller uses the ECU
Next ==
    \/ Device
    \/ \E a \in QueryInputs : QueryCall(1, a)
    \/ \E c \in CmdInputs, t \in Timeouts : CmdCall(1, c, t)
    \/ \E l \in PollLists : PollCall(1, l)
    \/ PollNext(1)
    \/ QuerySteps(1, DataBytes)
    \/ CmdSteps(1, DataBytes)
    \/ Forget(1)

Spec == Init /\ [][Next]_vars

\* several callers use the ECU at once
NextBus ==
    \/ Device
    \/ \E p \in Callers :
         \/ \E a \in BusQueryAddrs : QueryCall(p, a)
         \/ \E c \in BusCmdAddrs : CmdCall(p, c, 1)
         \/ QuerySteps(p, BusDataBytes)
         \/ CmdSteps(p, BusDataBytes)
         \/ Forget(p)

SpecBus == Init /\ [][NextBus]_vars

\* one user of the ECU and its six methods, one call after the other
OpsData == {0, 64}

NextOps ==
    \/ Open
    \/ Deliver
    \/ Probe(1)
    \/ ReadDTCs(1)
    \/ EraseDTCs(1)
    \/ JobSteps(1)
    \/ JobFree(1) /\ \E a \in BusQueryAddrs : QueryCall(1, a)
    \/ JobFree(1) /\ \E c \in BusCmdAddrs : CmdCall(1, c, 1)
    \/ JobFree(1) /\ PollCall(1, <<20, 32, 17>>)
    \/ PollNext(1)
    \/ JobFree(1) /\ Forget(1)
    \/ QuerySteps(1, BusDataBytes)
    \/ CmdSteps(1, OpsData)

SpecOps == Init /\ [][NextOps]_vars

\* two users of the ECU: one calls Probe, the other QuerySensor and
\* SendCommand
NextProbe ==
    \/ Open
    \/ Deliver
    \/ Probe(1)
    \/ JobSteps(1)
    \/ QueryCall(2, probeAddr)
    \/ CmdCall(2, 246, 1)
    \/ Forget(2)
    \/ \E p \in Callers :
         \/ QuerySteps(p, BusDataBytes)
         \/ CmdSteps(p, BusDataBytes)

SpecProbe == Init /\ [][NextProbe]_vars

\* the App in demo mode and its user: the methods bound to the frontend
\* and the loop of its logger, which polls the simulator
InitApp == Construct("mock", <<17>>, 0)

NextApp ==
    \/ ConnectDemo
    \/ Disconnect
    \/ StartMonitoring
    \/ MonitoringStart
    \/ StopMonitoring
    \/ StartLogging
    \/ StopLogging
    \/ AppReadDTCs
    \/ AppEraseDTCs
    \/ \E c \in CommandNames : RunActuatorTest(c)
    \/ \E g \in Loops :
         \/ LoopDone(g)
         \/ LoopTick(g)
         \/ MockReturn(g)
         \/ LoopStore(g)
         \/ CsvRead(g)
         \/ LoopNotify(g, "none", <<>>)

SpecApp == InitApp /\ [][NextApp]_vars

\* the App connected to the ECU and its user, who starts monitoring and
\* then calls one of the DTC and actuator methods
FirstWhileMonitoring == IsRunning /\ app.job[1] = NoJob

NextAppBus ==
    \/ Connect
    \/ StartMonitoring
    \/ MonitoringStart
    \/ FirstWhileMonitoring /\ AppReadDTCs
    \/ FirstWhileMonitoring /\ AppEraseDTCs
    \/ FirstWhileMonitoring /\ RunActuatorTest("fuel-pump")
    \/ JobSteps(1)
    \/ QuerySteps(1, BusDataBytes)
    \/ CmdSteps(1, BusDataBytes)
    \/ Deliver
    \/ \E g \in Loops :
         \/ LoopTick(g)
         \/ PollNext(g)
         \/ QuerySteps(g, BusDataBytes)
         \/ LoopStore(g)
         \/ LoopNotify(g, "none", <<>>)

SpecAppBus == InitApp /\ [][NextAppBus]_vars

\* the logger with a test poller, started and stopped by its user
InitLogger == \E l \in IndexLists : Construct("mock", l, 1)

NextLogger ==
    \/ Start
    \/ Stop
    \/ OnSample
    \/ \E l \in IndexLists : SetIndices(l)
    \/ \E g \in Loops : LoopSteps(g)

SpecLogger == InitLogger /\ [][NextLogger]_vars

\* one session of the logger with a test poller, never stopped by its user
InitWatchdog == Construct("mock", <<17>>, watchdogThreshold)

NextWatchdog ==
    \/ Start
    \/ OnSample
    \/ \E g \in Loops :
         \/ LoopTick(g) \/ MockReturn(g) \/ LoopStore(g)
         \/ LoopNotify(g, "none", <<>>)

SpecWatchdog == InitWatchdog /\ [][NextWatchdog]_vars

\* one session of the logger with a test poller, its cycles counted
InitCounting == ConstructCounting("mock", <<17>>, 2, MaxCycles)

SpecCounting == InitCounting /\ [][NextWatchdog]_vars

\* sessions of the logger with a test poller that are started and stopped.
\* Every poll returns and the loop goes on with what follows it; the select
\* of the loop picks among its ready cases at random, so the case of the
\* cancelled context, ready from Stop on at every select, is taken in the end
InitStopping == Construct("mock", <<17>>, 1)

NextStopping ==
    \/ Start
    \/ Stop
    \/ OnSample
    \/ \E g \in Loops : LoopSteps(g)

SpecStopping ==
    /\ InitStopping /\ [][NextStopping]_vars
    /\ \A g \in Loops :
          /\ WF_vars(MockReturn(g)) /\ WF_vars(LoopStore(g))
          /\ WF_vars(LoopNotify(g, "none", <<>>))
          /\ SF_vars(LoopDone(g))

\* one session of the logger polling the ECU: the port is opened, the
\* logger started and stopped; after Stop a caller of the ECU makes queries
\* and sends commands, while the loop may still be in its last cycles
InitPause == Construct("ecu", <<17>>, 1)

Stopped == ~running /\ cur # NoProc

NextPause ==
    \/ Open
    \/ Deliver
    \/ cur = NoProc /\ Start
    \/ Stop
    \/ \E g \in Loops :
         \/ LoopDone(g)
         \/ LoopTick(g)
         \/ PollNext(g)
         \/ QuerySteps(g, BusDataBytes)
         \/ LoopStore(g)
    \/ Stopped /\ QueryCall(1, 33)
    \/ Stopped /\ CmdCall(1, 246, 1)
    \/ QuerySteps(1, BusDataBytes)
    \/ CmdSteps(1, BusDataBytes)
    \/ Forget(1)

SpecPause == InitPause /\ [][NextPause]_vars

\* one session of the logger polling the ECU, never stopped by its user
EngineLists == {<<17>>, <<19, 17>>, <<20, 32>>}

InitEngine == \E l \in EngineLists : Construct("ecu", l, watchdogThreshold)

NextEngine ==
    \/ Device
    \/ Start
    \/ OnSample
    \/ \E g \in Loops :
         \/ LoopTick(g)
         \/ PollNext(g)
         \/ QuerySteps(g, BusDataBytes)
         \/ LoopStore(g)
         \/ LoopNotify(g, "none", <<>>)

SpecEngine == InitEngine /\ [][NextEngine]_vars

\* the logger with a test poller and subscribers that call it from inside
\* their callbacks; its user starts it and adds subscribers
InitSubscriber == \E l \in {<<17>>, <<19, 17>>} : Construct("mock", l, 1)

NextSubscriber ==
    \/ Start
    \/ OnSample
    \/ \E g \in Loops :
         \/ LoopDone(g) \/ LoopTick(g) \/ MockReturn(g) \/ LoopStore(g)
         \/ \E does \in CallbackCalls \ {"SetIndices"} : LoopNotify(g, does, <<>>)
         \/ \E l \in IndexLists : LoopNotify(g, "SetIndices", l)

SpecSubscriber == InitSubscriber /\ [][NextSubscriber]_vars

(* ================================================================ claims *)

\* the request byte is sent and the last receive is not over
InExchange(p) == pc[p] \in {"q_recv", "c_echo", "c_result"}

\* C1: while one operation is between sending its request byte and the end
\* of its last receive, it holds the bus lock, no other operation is past
\* the lock, and the latest send or receive on the transport is its own.
C1_ExchangesNeverInterleave ==
    \A p \in Callers :
        InExchange(p) =>
            /\ busMu = p
            /\ lastIO = p
            /\ \A q \in Callers \ {p} :
                 pc[q] \in {"idle", "done", "q_lock", "c_lock", "p_next"}

C1_Witness ==
    \E p \in Callers, q \in Callers :
        /\ p # q
        /\ pc[p] = "c_result" /\ call[p].addr = 246
        /\ pc[q] = "q_lock" /\ call[q].addr = 33
        /\ rx # <<>>

\* C2: a QuerySensor with an address of 0xC0 or more has returned the
\* command-range error without any transport operation, whatever the state
\* of the port and the line; the guard rejects no address up to 0xBF.
C2_QueryGuard ==
    /\ \A a \in Byte : QueryRejects(a) <=> a >= 192
    /\ \A p \in Callers :
         call[p].op = "query" =>
            /\ call[p].addr >= 192 =>
                 /\ pc[p] = "done"
                 /\ call[p].err = Err("command range", call[p].addr, 0)
                 /\ call[p].trace = <<>>
                 /\ busMu # p
            /\ call[p].addr <= 191 => call[p].err.kind # "command range"

C2_Witness ==
    /\ pc[1] = "done" /\ call[1].op = "query" /\ call[1].addr = 192
    /\ isOpen /\ rx # <<>>

\* C3: the whitelist is the 13 addresses 0xCA and 0xF1..0xFC; a SendCommand
\* with any other byte has returned an error without any transport operation,
\* not even the flush, and one with a whitelisted byte is not rejected.
C3_CommandWhitelist ==
    /\ validCommandAddrs = {202} \cup (241..252)
    /\ Cardinality(validCommandAddrs) = 13
    /\ \A c \in Byte : CommandRejects(c) <=> c \notin ({202} \cup (241..252))
    /\ \A p \in Callers :
         call[p].op = "command" =>
            IF call[p].addr \in {202} \cup (241..252)
            THEN call[p].err.kind # "not a command"
            ELSE /\ pc[p] = "done"
                 /\ call[p].err = Err("not a command", call[p].addr, 0)
                 /\ call[p].trace = <<>>
                 /\ busMu # p

C3_Witness ==
    /\ pc[1] = "done" /\ call[1].op = "command" /\ call[1].addr = 203
    /\ isOpen /\ rx # <<>>

\* C4: once a loop whose session was not stopped has had 20 failed polls in
\* a row, the loop has ended and the engine is not running any more.
C4_WatchdogEndsLoop ==
    \A g \in Loops :
        (ctx[g] = "live" /\ fails[g] >= watchdogThreshold) =>
            /\ pc[g] = "off"
            /\ ~running

\* after 20 failed polls in a row the loop is in its next poll, the engine
\* still running
C4_Witness ==
    \E g \in Loops :
        /\ ctx[g] = "live" /\ fails[g] = watchdogThreshold
        /\ pc[g] = "m_poll" /\ running

C6_NoCallbackAfterStop == ~cbAfterStop

\* Stop has returned, the engine is not running, and the loop it cancelled
\* has invoked one callback since and is about to invoke the next
C6_Witness ==
    \E g \in Loops :
        /\ cbAfterStop /\ ~running /\ ctx[g] = "done"
        /\ pc[g] = "l_notify" /\ lp[g].k = 1

\* C7: once a loop polling the ECU has had 20 polls in a row in which
\* queries were made and none was answered, the loop has ended and the
\* engine is not running any more.
C7_SilentEcuEndsLoop ==
    \A g \in Loops :
        (ctx[g] = "live" /\ dead[g] >= watchdogThreshold) =>
            /\ pc[g] = "off"
            /\ ~running

\* after 20 unanswered polls in a row the sample of the last one, with no
\* data, is being delivered; no poll has failed
C7_Witness ==
    \E g \in Loops :
        /\ poller = "ecu" /\ dead[g] = watchdogThreshold /\ fails[g] = 0
        /\ pc[g] = "l_notify" /\ lp[g].sample.DataPresent = {}
        /\ running

\* C8: a QuerySensor whose first received byte is not the address sent
\* returns the echo-mismatch error and no data byte, and the PollSensors that
\* made the query leaves the slot absent from its sample.
C8_EchoMismatchDiscardsSample ==
    \A p \in Callers :
        /\ (pc[p] = "q_ret" /\ call[p].totalRead = 2
                /\ call[p].buf[1] # call[p].addr) =>
              /\ call[p].err = Err("echo mismatch", call[p].addr, call[p].buf[1])
              /\ call[p].val = 0
        /\ \A f \in poll[p].failed : ~HasData(poll[p].sample, f[1])

C8_Witness ==
    /\ pc[1] = "done" /\ call[1].op = "poll"
    /\ poll[1].indices = <<19, 17>>
    /\ <<19, "echo mismatch">> \in poll[1].failed
    /\ poll[1].sample.DataPresent = {17}
    /\ poll[1].sample.RawData[17] = 64

\* C9: a QuerySensor whose read loop ends with fewer than 2 bytes received
\* returns the timeout error naming the address and the number of bytes
\* received, and no data byte.
C9_TimeoutNamesAddressAndCount ==
    \A p \in Callers :
        (pc[p] = "q_ret" /\ call[p].totalRead < 2
            /\ call[p].err.kind \notin {"send", "read"}) =>
              /\ call[p].err = Err("timeout", call[p].addr, call[p].totalRead)
              /\ call[p].val = 0

C9_Witness ==
    /\ pc[1] = "q_ret" /\ call[1].addr = 191
    /\ call[1].totalRead = 1 /\ call[1].buf[1] = 191
    /\ call[1].err = Err("timeout", 191, 1)

\* C10: when QuerySensor or SendCommand is about to return an error that
\* follows the sending of the request byte, the last transport operation of
\* the call is a flush, made after the send, and the bus lock is still held.
C10_FlushBeforeErrorReturn ==
    \A p \in Callers :
        (pc[p] \in {"q_ret", "c_ret"} /\ call[p].err.kind \notin {"none", "send"}) =>
            /\ busMu = p
            /\ Len(call[p].trace) >= 2
            /\ Last(call[p].trace) = "flush"
            /\ \E i \in 1..(Len(call[p].trace) - 1) : call[p].trace[i] = "send"

C10_Witness ==
    /\ pc[1] = "c_ret" /\ call[1].addr = 246
    /\ call[1].err.kind = "result timeout"
    /\ call[1].trace = <<"flush", "send", "recv", "echo ok", "recv", "flush">>

\* C11: a QuerySensor of an address below 0xC0 that has received the two
\* bytes [a, d], in one read or in two, has sent the one byte a and returns
\* d with no error; a query that returns no error has received such a reply.
C11_QueryReturnsDataByte ==
    \A p \in Callers :
        /\ (pc[p] = "q_ret" /\ call[p].totalRead = 2
                /\ call[p].buf[1] = call[p].addr) =>
              /\ call[p].addr < 192
              /\ call[p].sent = <<call[p].addr>>
              /\ call[p].err = NoErr
              /\ call[p].val = call[p].buf[2]
        /\ (pc[p] = "q_ret" /\ call[p].err = NoErr) =>
              /\ call[p].totalRead = 2
              /\ call[p].buf[1] = call[p].addr

\* query(0x21) has received 0x21 in one read and 0x40 in the next
C11_Witness ==
    /\ pc[1] = "q_ret" /\ call[1].addr = 33
    /\ call[1].buf = <<33, 64>> /\ call[1].reads = 2
    /\ call[1].sent = <<33>>
    /\ call[1].err = NoErr /\ call[1].val = 64

\* C12: a SendCommand of a whitelisted byte holds the bus lock from its
\* flush to its return. One that returns no error has done, in this order,
\* flush, send of the one byte c, receive of an echo equal to c, receive of
\* one result byte, and returns that byte. With an echo other than c, with
\* no echo, or with no result byte within the caller's timeout it returns an
\* error and no result.
C12_CommandExchange ==
    \A p \in Callers :
        /\ pc[p] \in {"c_flush", "c_send", "c_echo", "c_result", "c_ret"} =>
              /\ busMu = p
              /\ call[p].addr \in validCommandAddrs
        /\ (pc[p] = "c_ret" /\ call[p].err = NoErr) =>
              /\ call[p].trace = <<"flush", "send", "recv", "echo ok", "recv">>
              /\ call[p].sent = <<call[p].addr>>
              /\ call[p].buf[1] = call[p].addr
              /\ call[p].totalRead = 1
              /\ call[p].val = call[p].buf[2]
        /\ (pc[p] = "c_ret" /\ call[p].err # NoErr) => call[p].val = 0
        /\ (pc[p] = "c_ret" /\ call[p].err.kind \notin {"send", "read echo", "read result"}) =>
              LET c == call[p]
                  echoed == \E i \in 1..Len(c.trace) : c.trace[i] = "echo ok"
              IN /\ (~echoed /\ c.totalRead = 0) => c.err = Err("echo timeout", c.addr, 0)
                 /\ (~echoed /\ c.totalRead = 1) =>
                        c.err = Err("command echo mismatch", c.addr, c.buf[1])
                 /\ (echoed /\ c.totalRead = 0) => c.err = Err("result timeout", c.addr, 0)

\* sendCommand(0xF6) has got the echo 0xF6 and the result 0x00
C12_Witness ==
    /\ pc[1] = "c_ret" /\ call[1].addr = 246
    /\ call[1].buf = <<246, 0>> /\ call[1].val = 0
    /\ call[1].err = NoErr /\ busMu = 1

\* the indices of a list that PollSensors queries over the wire, in order
Wanted(list) == SelectSeq(list, Queried)

\* C13: during a PollSensors call the queries made so far are, in order, the
\* wire-sourced slots of the indices gone through, whether they failed or
\* not; the call ends with a sample and no error, every wire-sourced slot of
\* the list having been queried once, each either answered or failed.
C13_FailuresKeepOrder ==
    \A p \in Callers :
        LET q == poll[p]
            through == IF pc[p] = "p_next" THEN q.k - 1 ELSE Min(q.k, Len(q.indices))
        IN /\ q.active => q.asked = Wanted(Take(q.indices, through))
           /\ (pc[p] = "done" /\ call[p].op = "poll") =>
                 /\ call[p].err = NoErr
                 /\ q.asked = Wanted(q.indices)
                 /\ {q.asked[i] : i \in 1..Len(q.asked)}
                        = {o[1] : o \in q.okay} \cup {f[1] : f \in q.failed}

\* the query of the first slot timed out, the second was made and answered
C13_Witness ==
    /\ pc[1] = "done" /\ call[1].op = "poll"
    /\ poll[1].indices = <<19, 17>> /\ poll[1].asked = <<19, 17>>
    /\ poll[1].failed = {<<19, "timeout">>}
    /\ poll[1].okay = {<<17, 64>>}

\* C14: in the sample of a PollSensors call a wire-sourced slot is present
\* if and only if a query of the slot was answered in this call, and then
\* its raw byte is the data byte of that query; a slot whose query failed or
\* that was not asked for is absent, with no raw byte.
C14_PresenceIffAnswered ==
    \A p \in Callers :
        LET q == poll[p]
        IN \A i \in Slots :
             Queried(i) =>
                /\ HasData(q.sample, i) <=> (\E o \in q.okay : o[1] = i)
                /\ \A o \in q.okay : o[1] = i => q.sample.RawData[i] = o[2]
                /\ ~HasData(q.sample, i) => q.sample.RawData[i] = 0

\* one slot answered with the byte 0, one not answered, one not asked for
C14_Witness ==
    /\ pc[1] = "done" /\ call[1].op = "poll"
    /\ poll[1].indices = <<19, 17>>
    /\ poll[1].okay = {<<19, 0>>}
    /\ poll[1].failed = {<<17, "echo mismatch">>}
    /\ HasData(poll[1].sample, 19) /\ poll[1].sample.RawData[19] = 0
    /\ ~HasData(poll[1].sample, 17) /\ ~HasData(poll[1].sample, 21)

\* C15: while a loop is invoking its callbacks it does not hold the state
\* lock, and the lock is held only by a loop that is storing its sample: a
\* call of Stop, SetIndices, OnSample, IsRunning or LastSample made from
\* inside a callback gets the lock.
C15_NoCallbackUnderLock ==
    /\ \A g \in Loops : pc[g] = "l_notify" => mu # g
    /\ mu # NoProc => (mu \in Loops /\ pc[mu] = "l_store")

\* the first callback has called Stop and returned; the second is next
C15_Witness ==
    \E g \in Loops :
        /\ pc[g] = "l_notify" /\ lp[g].k = 1 /\ lp[g].cbs = 2
        /\ ~IsRunning /\ ctx[g] = "done" /\ cur = g
        /\ LastSample = lp[g].sample
        /\ mu = NoProc

\* a loop is in a poll, or is storing or delivering the sample of one
Busy(g) == pc[g] \notin {"off", "l_select"}

\* C16: at no time are two loops of the engine each in a poll or in the
\* delivery of a sample.
C16_OneCycleAtATime ==
    \A g \in Loops, h \in Loops : (g # h /\ Busy(g)) => ~Busy(h)

\* the loop of a stopped session is still in its poll while the loop of the
\* next session is in a poll of its own
C16_Witness ==
    \E g \in Loops, h \in Loops :
        /\ g # h /\ running /\ cur = h
        /\ ctx[g] = "done" /\ pc[g] = "m_poll"
        /\ ctx[h] = "live" /\ pc[h] = "m_poll"

\* the loops whose context is not cancelled
Live == {g \in Loops : ctx[g] = "live"}

\* C17: IsRunning is false before the first Start; a Start leaves the engine
\* running and a Stop leaves it not running; a Start while running and a
\* Stop while not running change nothing; there is one loop with a live
\* context while the engine is running, the one Stop would cancel, and none
\* while it is not.
C17_StartStopIdempotent ==
    /\ []((\A g \in Loops : ctx[g] = "none") => ~IsRunning)
    /\ [](Live = IF IsRunning THEN {cur} ELSE {})
    /\ [][/\ Start => IsRunning'
          /\ Stop => ~IsRunning'
          /\ (Live' # Live /\ IsRunning) => ~IsRunning'
          /\ (Live' # Live /\ ~IsRunning) => IsRunning']_vars

\* the engine was started, stopped and started again
C17_Witness ==
    /\ IsRunning /\ cur = 12
    /\ ctx[11] = "done" /\ ctx[12] = "live"

\* C18: a poll that a tick starts is called with the list of l.indices at
\* that tick, which is the list of the latest SetIndices; a poll in flight
\* keeps its list whatever SetIndices is called.
C18_SetIndicesNextTick ==
    [][\A g \in Loops :
          /\ (pc[g] = "l_select" /\ pc'[g] = "m_poll") =>
                /\ poll'[g].indices = indices
                /\ indices # <<>>
          /\ (pc[g] = "m_poll" /\ pc'[g] = "m_poll") =>
                poll'[g].indices = poll[g].indices]_vars

\* a poll in flight with the list [17] after SetIndices([19, 17]), the
\* engine running
C18_Witness ==
    \E g \in Loops :
        /\ running /\ ctx[g] = "live"
        /\ pc[g] = "m_poll" /\ poll[g].indices = <<17>>
        /\ indices = <<19, 17>>

\* C19: a sample that a loop stores or delivers comes from a poll in which
\* at least one slot was queried, and no poll is called with an empty list.
C19_NoEmptyCycle ==
    \A g \in Loops :
        /\ pc[g] \in {"l_store", "l_notify"} => lp[g].asked > 0
        /\ pc[g] \in {"p_next", "m_poll"} => poll[g].indices # <<>>

\* the sample of a poll of the list [20, 32], in which no slot was queried,
\* is being delivered
C19_Witness ==
    \E g \in Loops :
        /\ pc[g] = "l_notify" /\ lp[g].asked = 0
        /\ indices = <<20, 32>> /\ lastSample = EmptySample

\* C20: a read of a log that was written and closed gives, without error,
\* the samples written, as many and in the same order, each with the same
\* raw array, presence mask and time in nanoseconds, and the unit system and
\* the index list the writer was made with.
C20_BinaryRoundTrip ==
    log.closed =>
        /\ log.result.err = "none"
        /\ Len(log.result.Samples) = Len(given.samples)
        /\ \A n \in 1..Len(given.samples) :
              /\ log.result.Samples[n].RawData = given.samples[n].RawData
              /\ log.result.Samples[n].DataPresent = given.samples[n].DataPresent
              /\ log.result.Samples[n].Time = given.samples[n].Time
        /\ log.result.Units = given.units
        /\ log.result.Indices = given.indices

\* two different samples written for the list [4, 31] in english units, the
\* second with slots 0, 17 and 31 present, and read back
C20_Witness ==
    /\ log.closed /\ log.result.err = "none"
    /\ given.indices = <<4, 31>> /\ given.units = 1
    /\ Len(given.samples) = 2
    /\ given.samples[1].DataPresent = {}
    /\ given.samples[2].DataPresent = {0, 17, 31}
    /\ given.samples[1].Time # given.samples[2].Time
    /\ log.result.Samples = given.samples

\* the value in the sample-count field of the file
HeaderCount == Uint32(SubSeq(file, 9, 12))

\* the number of whole records in the file after its index table
RecordsInFile == (Len(file) - mmcdHeaderSize - Len(given.indices)) \div mmcdSampleSize

\* C21: while a writer is open the sample-count field of its file is 0; once
\* it is closed the field holds Count(), the number of records appended; and
\* Close changes bytes 8..11 of the file and nothing else: the length, the
\* rest of the header, the index table and the records stay as they were.
C21_CountFieldOnClose ==
    /\ [](bw.state = "open" => HeaderCount = 0)
    /\ [](bw.state = "closed" =>
            /\ HeaderCount = bw.sampleCount
            /\ bw.sampleCount = Len(given.samples)
            /\ RecordsInFile = Len(given.samples))
    /\ [][bw.state = "open" /\ bw'.state = "closed" =>
            /\ Len(file') = Len(file)
            /\ \A i \in 1..Len(file) : i \notin 9..12 => file'[i] = file[i]]_vars

\* a log of two records for the list [4, 31] was closed
C21_Witness ==
    /\ bw.state = "closed" /\ bw.sampleCount = 2 /\ HeaderCount = 2
    /\ given.indices = <<4, 31>>
    /\ Len(file) = mmcdHeaderSize + 2 + 2 * mmcdSampleSize

\* the file that was read holds the whole header and index table of the
\* writer, with the writer's bytes but for the sample-count field
FromWriter ==
    /\ log.kind \in {"written", "cut", "counted"}
    /\ Len(log.bytes) >= mmcdHeaderSize + Len(given.indices)

\* the number of whole records in the file that was read
RecordsRead ==
    (Len(log.bytes) - mmcdHeaderSize - Len(given.indices)) \div mmcdSampleSize

\* C22: a read of a file that holds the header and the index table of a
\* writer returns, without an error, the whole records that follow the
\* index table, in file order, whatever the sample-count field holds (0 of a
\* log never closed, the true count, or any other value) and also when
\* the file ends inside a record.
C22_EveryCompleteRecord ==
    FromWriter =>
        /\ log.result.err = "none"
        /\ log.result.Samples = SubSeq(given.samples, 1, RecordsRead)

\* a file with one record and 2147483647 in its sample-count field was read
\* and the read ended in the allocation
C22_Witness ==
    /\ log.kind = "counted" /\ RecordsRead = 1
    /\ Uint32(SubSeq(log.bytes, 9, 12)) = 2147483647
    /\ log.result.err = "out of memory"

\* C23: a read of a file whose first four bytes are not "MMCD", or that is
\* shorter than the 16 bytes of the header or than the header with the
\* index table it announces, fails with an error and returns no log.
C23_MalformedFileRejected ==
    (/\ log.kind # "none"
     /\ \/ Len(log.bytes) < mmcdHeaderSize
        \/ SubSeq(log.bytes, 1, 4) # mmcdMagic
        \/ Len(log.bytes) < mmcdHeaderSize + Uint16(SubSeq(log.bytes, 7, 8)))
    => /\ log.result.err \in {"failed to read header", "bad magic",
                               "failed to read index table"}
       /\ DOMAIN log.result = {"err"}

\* a written file with one record, with "MMCd" in place of its tag, was read
\* and rejected
C23_Witness ==
    /\ log.kind = "tagged" /\ SubSeq(log.bytes, 1, 4) = <<77, 77, 67, 100>>
    /\ Len(log.bytes) = mmcdHeaderSize + 1 + mmcdSampleSize
    /\ log.result = [err |-> "bad magic"]

\* the bits set in a bitmap
BitsOf(bitmap) == {i \in 0..15 : (bitmap \div (2 ^ i)) % 2 = 1}

\* C29: for every 16-bit bitmap decodeDTCs returns as many entries as the
\* bitmap has bits set; the entries are those of the table at the set bits,
\* each with Bit equal to its place in the table and with the code and the
\* description of that place, in ascending order of the bits.
C29_DecodeDTCs ==
    dtc # NoDTC =>
        LET codes == dtc.codes
            bits == BitsOf(dtc.bitmap)
        IN /\ Len(codes) = Cardinality(bits)
           /\ \A k \in 1..Len(codes) :
                 /\ codes[k].Bit \in bits
                 /\ codes[k] = dtcTable[codes[k].Bit + 1]
                 /\ \A j \in 1..(k - 1) : codes[j].Bit < codes[k].Bit
           /\ \A i \in bits : \E k \in 1..Len(codes) : codes[k].Bit = i
           /\ \A i \in 0..15 : dtcTable[i + 1].Bit = i

\* the bitmap 0x8021 was decoded: oxygen sensor, coolant temperature sensor
\* and ignition circuit
C29_Witness ==
    /\ dtc.bitmap = 32801
    /\ Len(dtc.codes) = 3
    /\ dtc.codes[1].Code = "11" /\ dtc.codes[2].Code = "21"
    /\ dtc.codes[3] = DTCCode(15, "36", "Ignition circuit")

\* min(255, floor(P * E / 117))
Duty(e, p) == Min(255, (p * e) \div 117)

\* C27: ComputeDerivatives of a sample with the engine speed (slot 17) and
\* the pulse width (slot 19) both present makes slot 20 present with the
\* value min(255, floor(P*E/117)); with either absent it leaves slot 20 as it
\* was, absent if it was absent. While PollSensors goes through its list
\* slot 20 is absent, and in the sample it returns slot 20 is present exactly
\* when slot 17 and slot 19 were both answered in this call, with the value
\* computed from the two bytes answered, in whatever order they were asked.
C27_DutyCycle ==
    /\ \A n \in 2..(IF calc = NoCalc THEN 0 ELSE Len(calc.outs)) :
          LET s == calc.outs[n - 1]
              r == calc.outs[n]
          IN IF HasData(s, 17) /\ HasData(s, 19)
             THEN /\ HasData(r, 20)
                  /\ r.RawData[20] = Duty(s.RawData[17], s.RawData[19])
             ELSE /\ HasData(r, 20) = HasData(s, 20)
                  /\ r.RawData[20] = s.RawData[20]
    /\ LET q == poll[1]
       IN /\ q.active => ~HasData(q.sample, 20)
          /\ (pc[1] = "done" /\ call[1].op = "poll") =>
                IF \E e, p \in Byte : {<<17, e>>, <<19, p>>} \subseteq q.okay
                THEN \E e, p \in Byte :
                        /\ {<<17, e>>, <<19, p>>} \subseteq q.okay
                        /\ HasData(q.sample, 20)
                        /\ q.sample.RawData[20] = Duty(e, p)
                ELSE ~HasData(q.sample, 20)

\* a poll of [17, 19] came back with the speed 255, the pulse width 64 and
\* the duty cycle 139
C27_Witness ==
    /\ pc[1] = "done" /\ call[1].op = "poll"
    /\ poll[1].indices = <<17, 19>>
    /\ poll[1].okay = {<<17, 255>>, <<19, 64>>}
    /\ HasData(poll[1].sample, 20) /\ poll[1].sample.RawData[20] = 139

\* C28: ComputeDerivatives applied twice to a sample gives what it gives
\* applied once, and an application changes neither the time of the sample
\* nor the raw byte or the presence of any slot other than slot 20.
C28_DerivativesIdempotent ==
    calc # NoCalc =>
        /\ Len(calc.outs) = 3 => calc.outs[3] = calc.outs[2]
        /\ \A n \in 2..Len(calc.outs) :
              LET s == calc.outs[n - 1]
                  r == calc.outs[n]
              IN /\ r.Time = s.Time
                 /\ \A i \in Slots \ {20} :
                       /\ r.RawData[i] = s.RawData[i]
                       /\ HasData(r, i) = HasData(s, i)

\* applied twice to a sample with the speed 255 and the pulse width 255
\* present and a left-over 7 in slot 20, which the first application
\* replaced by 255
C28_Witness ==
    /\ calc # NoCalc /\ Len(calc.outs) = 3
    /\ calc.outs[1].DataPresent = {4, 17, 19}
    /\ calc.outs[1].RawData[17] = 255 /\ calc.outs[1].RawData[19] = 255
    /\ calc.outs[1].RawData[20] = 7
    /\ calc.outs[2].DataPresent = {4, 17, 19, 20}
    /\ calc.outs[2].RawData[20] = 255
    /\ calc.outs[3] = calc.outs[2]

MaskAndData(s) == <<s.DataPresent, s.RawData>>

EntryMaskAndData(g) == <<g.DataPresent, g.Data>>

\* the year of an entry is one of 1995..2030 on the machine that imports:
\* its time lies from 1 January 1995 up to 1 January 2031 there (counted in
\* units of 4 seconds from the Unix epoch)
YearInRange(quarter) == quarter >= 197229600 /\ quarter < 481248000

EntryExpected(g, zone) ==
    /\ g.DataPresent # {} /\ g.DataPresent # Slots
    /\ g.Time # <<0, 0>>
    /\ YearInRange(g.Time[1] * 16384 + (g.Time[2] \div 4) - 520711200 + (zone \div 4))

\* the entries that are samples, in file order, of the records of a file
\* that carry the block tag (placed: and their own DataOffset)
RECURSIVE ExpectedOf(_, _, _)
ExpectedOf(recs, zone, placed) ==
    IF recs = <<>>
    THEN <<>>
    ELSE (IF Head(recs).tag = pdbBlock /\ (placed => Head(recs).off = "ok")
          THEN SelectSeq([j \in 1..Len(Head(recs).entries) |-> Head(recs).entries[j]],
                         LAMBDA g : EntryExpected(g, zone))
          ELSE <<>>)
            \o ExpectedOf(Tail(recs), zone, placed)

Intact(recs) == \A i \in 1..Len(recs) : recs[i].off = "ok"

ParsedSamples == IF parsed.result.err = "none" THEN parsed.result.Samples ELSE <<>>

\* C24: the result of ParsePDB holds no sample with an empty or a full
\* presence mask, with raw time 0 or with a year outside 1995..2030, and
\* every other entry of a record with the block tag gives one sample, in file
\* order, with its mask and its 32 bytes unchanged
C24_FilteredSamples ==
    /\ \A k \in 1..Len(ParsedSamples) :
          LET s == ParsedSamples[k]
          IN /\ s.DataPresent # {} /\ s.DataPresent # Slots
             /\ s.Time # [day |-> -EpochDay, sec |-> 0]
             /\ YearInRange(s.Time.day * 21600 + (s.Time.sec \div 4) + (parsed.zone \div 4))
    /\ (parsed.how = "whole" /\ parsed.result.err = "none" /\ Intact(parsed.of.recs))
          => [k \in 1..Len(ParsedSamples) |-> MaskAndData(ParsedSamples[k])]
                = LET want == ExpectedOf(parsed.of.recs, parsed.zone, FALSE)
                  IN [k \in 1..Len(want) |-> EntryMaskAndData(want[k])]

\* a whole file was imported whose first block holds an entry with a full
\* mask before a sample, and whose second block holds samples too
C24_Witness ==
    /\ parsed.how = "whole" /\ parsed.result.err = "none"
    /\ Len(parsed.of.recs) = 2 /\ Intact(parsed.of.recs)
    /\ Len(parsed.of.recs[1].entries) = 2
    /\ parsed.of.recs[1].entries[1].DataPresent = Slots
    /\ Len(parsed.of.recs[2].entries) = 2
    /\ Len(parsed.result.Samples) = 3

\* C25: ParsePDB returns an error and no log for a file that is too short for
\* the 78-byte header, or whose type is not "strm", or whose creator is not
\* "MMCd"
C25_ForeignFileRejected ==
    (/\ parsed.how # "none"
     /\ \/ parsed.size < 78
        \/ parsed.how # "text"
             /\ (parsed.of.type # <<115, 116, 114, 109>>
                    \/ parsed.of.creator # <<77, 77, 67, 100>>))
        => parsed.result.err # "none" /\ DOMAIN parsed.result = {"err"}

\* a whole file with samples, the type of an MMCd log and another creator was
\* refused
C25_Witness ==
    /\ parsed.how = "whole" /\ parsed.size >= 78
    /\ parsed.of.type = pdbType /\ parsed.of.creator # pdbCreator
    /\ \E i \in 1..Len(parsed.of.recs) : parsed.of.recs[i].entries # <<>>
    /\ parsed.result.err = "not an MMCd log file"

RECURSIVE IsSubSeq(_, _)
IsSubSeq(a, b) ==
    IF a = <<>> THEN TRUE
    ELSE IF b = <<>> THEN FALSE
    ELSE IF Head(a) = Head(b) THEN IsSubSeq(Tail(a), Tail(b))
    ELSE IsSubSeq(a, Tail(b))

\* C26: a record without the block tag, or with a start at or behind its end
\* or the end of the file, does not fail the import: ParsePDB reports no
\* error and returns the samples of all other records, in order
C26_BadRecordSkipped ==
    (parsed.how = "whole" /\ parsed.of.type = pdbType /\ parsed.of.creator = pdbCreator)
        => /\ parsed.result.err = "none"
           /\ LET want == ExpectedOf(parsed.of.recs, parsed.zone, TRUE)
              IN IsSubSeq([k \in 1..Len(want) |-> EntryMaskAndData(want[k])],
                          [k \in 1..Len(ParsedSamples) |-> MaskAndData(ParsedSamples[k])])

\* a file was imported whose first record starts where it ends, before a
\* block of two samples, which are the result
C26_Witness ==
    /\ parsed.how = "whole" /\ parsed.result.err = "none"
    /\ Len(parsed.of.recs) = 2
    /\ parsed.of.recs[1].off = "next" /\ parsed.of.recs[1].tag = pdbBlock
    /\ parsed.of.recs[2] = PDBRecord(pdbBlock, <<Good, Good2>>, "ok")
    /\ [k \in 1..Len(ParsedSamples) |-> MaskAndData(ParsedSamples[k])]
          = <<EntryMaskAndData(Good), EntryMaskAndData(Good2)>>

(* ------------------------------------------------- failed polls: claims *)
\* the fields of the Logger and the locals of its loops: what the program
\* holds of its polls, without the history the model keeps
LoggerFields == <<poller, running, ctx, cur, indices, callbacks, lastSample, lp, mu>>

\* the step in which PollSensors returns an error to loop g
PollFails(g) == pc[g] = "m_poll" /\ pc'[g] = "l_select"

\* C31: a failed poll raises the logger's count of errors and its count of
\* errors in a row by one and is told to the error subscribers, so it leaves
\* a mark in what the logger holds; it delivers nothing to the sample
\* subscribers and leaves the sample count and LastSample as they were
C31_FailedPollCounted ==
    [][\A g \in Loops :
          PollFails(g) =>
             /\ LoggerFields' # LoggerFields
             /\ pc'[g] # "l_notify"
             /\ lp'[g].cycles = lp[g].cycles
             /\ LastSample' = LastSample]_vars

\* a poll has failed after one that gave a sample with data to two
\* subscribers
C31_Witness ==
    \E g \in Loops :
        /\ pc[g] = "l_select" /\ fails[g] = 1 /\ lp[g].cycles = 1
        /\ callbacks = 2 /\ LastSample # EmptySample

(* --------------------------------------------- PollSensors skips: claims *)
\* the indices of the table with a sensor that is read over the wire: 1..19,
\* 21 and 22 (TestAllPollableIndices)
Pollable == (1..19) \cup {21, 22}

\* C32: PollSensors calls QuerySensor only for an index of the table whose
\* definition exists, is not computed and has an address other than 0xFF;
\* its turn over any other index of the list moves on to the next index and
\* does nothing else: no byte sent or read, no lock taken, no presence bit,
\* no error. After the call the only slot present without a query is the
\* derived one.
C32_SkippedIndicesSilent ==
    /\ [](\A p \in Procs :
            /\ \A j \in 1..Len(poll[p].asked) : poll[p].asked[j] \in Pollable
            /\ \A f \in poll[p].failed : f[1] \in Pollable
            /\ poll[p].sample.DataPresent \subseteq
                 ({o[1] : o \in poll[p].okay}
                     \cup (IF poll[p].active THEN {} ELSE {20})))
    /\ [][\A p \in Procs :
            (/\ pc[p] = "p_next"
             /\ poll[p].k <= Len(poll[p].indices)
             /\ poll[p].indices[poll[p].k] \notin Pollable
             /\ poll'[p] # poll[p])
              => /\ poll' = [poll EXCEPT ![p].k = @ + 1]
                 /\ UNCHANGED <<isOpen, rx, wire, busMu, lastIO, pc, call>>]_vars

\* a poll of a negative index and two empty slots before RPM has returned
\* the value of RPM alone, having sent one request
C32_Witness ==
    /\ pc[1] = "done" /\ call[1].op = "poll"
    /\ poll[1].indices = <<-1, 0, 23, 17>>
    /\ poll[1].asked = <<17>>
    /\ poll[1].sample.DataPresent = {17}
    /\ poll[1].failed = {}

\* the bytes of the name field of the file that was parsed, and the number
\* of them before the first zero byte
NameField == parsed.of.name \o [i \in 1..(32 - Len(parsed.of.name)) |-> 0]

NameLength ==
    CHOOSE k \in 0..32 :
        /\ \A i \in 1..k : NameField[i] # 0
        /\ k = 32 \/ NameField[k + 1] = 0

\* C33: the name ParsePDB returns is the bytes of the 32-byte name field
\* before its first zero byte: all 32 when there is none, the empty string
\* when the first byte is zero
C33_NameUpToFirstZero ==
    (parsed.how \in {"whole", "cut"} /\ parsed.result.err = "none")
        => parsed.result.Name = SubSeq(NameField, 1, NameLength)

\* a file whose name field starts with a zero byte was parsed
C33_Witness ==
    /\ parsed.how = "whole" /\ parsed.result.err = "none"
    /\ NameField[1] = 0 /\ NameField[2] # 0
    /\ Len(parsed.result.Samples) = 2

(* ------------------------------------------------- the end of the loop *)
\* the step in which loop g starts a poll cycle: the ticker case of its select
StartsCycle(g) == pc[g] = "l_select" /\ pc'[g] = "m_poll"

\* C34: once Stop has cancelled the context of a loop, the loop exits in the
\* end, and it starts no poll cycle any more
C34_LoopExitsAfterStop ==
    /\ \A g \in Loops : (ctx[g] = "done") ~> (pc[g] = "off")
    /\ [][\A g \in Loops : ctx[g] = "done" => ~StartsCycle(g)]_vars

\* a loop whose context Stop has cancelled is inside PollSensors, in a cycle
\* it began after Stop had returned
C34_Witness ==
    \E g \in Loops :
        /\ ctx[g] = "done" /\ ~running /\ pc[g] = "m_poll"
        /\ cbAfterStop

(* --------------------------------------------------- the bus lock: claims *)
\* p is not between the Lock of QuerySensor or SendCommand and its return
Outside(p) ==
    pc[p] \in {"idle", "done", "q_lock", "c_lock", "p_next", "off", "l_select",
               "l_store", "l_notify", "m_poll"}

\* C35: whoever has taken the bus lock in QuerySensor or SendCommand has
\* released it when the call has returned, with a value or with any error;
\* once Stop has been called and no loop is inside an exchange, no loop
\* holds the lock, and a caller that waits for it finds it free
C35_BusLockReleased ==
    /\ \A p \in Procs : Outside(p) => busMu # p
    /\ \A p \in Procs : (pc[p] = "done" /\ call[p].err # NoErr) => busMu # p
    /\ (Stopped /\ \A g \in Loops : Outside(g))
          => /\ busMu \notin Loops
             /\ pc[1] \in {"q_lock", "c_lock"} => busMu = NoProc

\* the logger was stopped, its loop has ended after a poll whose query was
\* not answered, and a command sent later holds the lock
C35_Witness ==
    /\ Stopped
    /\ \E g \in Loops : pc[g] = "off" /\ dead[g] = 1
    /\ busMu = 1 /\ pc[1] = "c_echo"

(* ------------------------------------------------------------------ C36 *)
\* the 13 command addresses of the address-space table: DTC erase and the
\* twelve actuator tests
Whitelist == {202} \cup (241..252)

\* C36: over any sequence of QuerySensor, SendCommand, Probe, PollSensors,
\* ReadDTCs and EraseDTCs calls, every request byte written to the port is
\* below 0xC0 and written by a query, or one of the 13 whitelisted
\* addresses and written by a command; no byte is accepted by both paths,
\* and no byte of 0xC0..0xFF outside the whitelist is ever written.
C36_RequestBytes ==
    /\ \A p \in Procs : \A i \in 1..Len(call[p].sent) :
         LET b == call[p].sent[i]
         IN /\ \/ call[p].op = "query" /\ b < 192
               \/ call[p].op = "command" /\ b \in Whitelist
            /\ b \notin (192..255) \ Whitelist
    /\ \A b \in Byte : QueryRejects(b) \/ CommandRejects(b)

\* ReadDTCs has written its fourth request byte
C36_Witness ==
    /\ app.job[1].op = "ReadDTCs" /\ app.job[1].step = 3
    /\ call[1].sent = <<AddrStoredDTCHigh>>
    /\ call[1].op = "query"

(* ------------------------------------------------------------------ C37 *)
\* a step of p that sends to the port, receives from it or flushes it
Transport(p) ==
    \/ Probe(p)
    \/ pc[p] \in {"q_send", "q_recv", "c_flush", "c_send", "c_echo", "c_result"}
       /\ call'[p] # call[p]

\* C37: every send, receive and flush done for QuerySensor, SendCommand or
\* Probe is done by the holder of the bus lock, and a Probe that runs while
\* another caller is in its exchange discards no byte of the reply.
C37_TransportUnderLock ==
    [][\A p \in Callers :
         /\ Transport(p) => busMu = p
         /\ Probe(p) /\ (\E q \in Callers \ {p} : InExchange(q)) => rx' = rx]_vars

\* a Probe has flushed the port and not called QuerySensor yet, while the
\* other caller holds the lock, has sent its request and is reading
C37_Witness ==
    /\ app.job[1].op = "Probe" /\ app.job[1].step = 0 /\ pc[1] = "idle"
    /\ InExchange(2) /\ busMu = 2
    /\ call[2].sent = <<probeAddr>> /\ call[2].totalRead = 0
    /\ isOpen /\ rx = <<>> /\ wire = <<>>

(* ------------------------------------------------------------------ C38 *)
\* loop g ends the delivery of a sample: its last subscriber has returned
Delivered(g) == pc[g] = "l_notify" /\ pc'[g] = "l_select"

\* C38: a sample the loop delivers while monitoring runs and a CSV session
\* is on - on since before the loop took its subscribers, and until the
\* delivery ends - is written to the CSV file exactly once, whatever the
\* order of StartLogging, StopLogging, StartMonitoring and StopMonitoring;
\* and no sample is written through a writer StopLogging has closed.
C38_EverySampleLoggedOnce ==
    /\ [](~app.late)
    /\ [][\A g \in Loops :
            (/\ Delivered(g)
             /\ IsRunning /\ g = cur
             /\ app'.whole /\ app'.csvWriter = "open"
             /\ lp[g].cbs = callbacks)
            => app'.rows = 1]_vars

\* the logger has two subscribers of StartLogging and the loop has delivered
\* a sample to both
C38_Witness ==
    /\ app.csvWriter = "open" /\ app.whole /\ IsRunning
    /\ callbacks = 3
    /\ app.rows = 2
    /\ \E g \in Loops : g = cur /\ pc[g] = "l_select"

(* ------------------------------------------------------------------ C39 *)
\* a call of one of the three methods that reach for the ECU
EngineCall ==
    AppReadDTCs \/ AppEraseDTCs \/ \E c \in CommandNames : RunActuatorTest(c)

\* C39: in every state of the App with connected true, demo mode included,
\* ReadDTCs, EraseDTCs and RunActuatorTest return a result or an error and
\* use no nil ECU.
C39_NoNilEngine ==
    [][app.connected /\ EngineCall => ~app'.panicked]_vars

\* connected in demo mode, with no ECU, and one of the three methods called
C39_Witness ==
    /\ app.connected /\ app.demoMode /\ ~app.ecu
    /\ app.panicked

(* ------------------------------------------------------------------ C40 *)
\* between the start and the end of ReadDTCs, EraseDTCs or RunActuatorTest
InOperation == ~JobFree(1)

\* loop g writes the request byte of a sensor query to the port
PollIssued(g) == pc[g] = "q_send" /\ call'[g].sent # call[g].sent

\* C40: a DTC read, a DTC erase or an actuator test issued through the App
\* while monitoring runs stops the polling loop before it touches the bus
\* and starts it again when it is over: the logger is not running during
\* the operation, no loop issues a sensor query during it, and the logger
\* runs again when the operation ends.
C40_MonitoringPaused ==
    /\ [](InOperation => ~IsRunning)
    /\ [][\A g \in Loops : InOperation => ~PollIssued(g)]_vars
    /\ [][InOperation /\ ~InOperation' => IsRunning']_vars

\* ReadDTCs has had its first two bytes and the loop, still running, has
\* sent a sensor query
C40_Witness ==
    /\ app.job[1].op = "ReadDTCs" /\ app.job[1].step = 2 /\ InOperation
    /\ IsRunning
    /\ \E g \in Loops : pc[g] = "q_recv" /\ call[g].sent # <<>>
====
